---------------------------- MODULE Spec2Model ----------------------------
(***************************************************************************)
(* Model of server_mcp.py (UniversalProjectMCP and its request loop).      *)
(*                                                                         *)
(* Text is a sequence of Unicode code points, file content a sequence of   *)
(* bytes.  A path is a sequence of segment names; the file system maps     *)
(* every existing normalised absolute path to its node.                    *)
(***************************************************************************)
EXTENDS Integers, Sequences, FiniteSets, TLC

VARIABLES
    fs,            \* the file system: normalised absolute path -> node
    project_root,  \* UniversalProjectMCP.project_root (absolute, as resolved)
    config,        \* the project_root saved in the configuration file, or None
    call,          \* the tool call being made: [op |-> ..., arguments ...]
    phase,         \* "called" before the operation has run, "returned" after
    ret,           \* what the operation gave its caller
    opened,        \* the files the operation opened, in order
    stdin,         \* main: the input lines not yet read
    stdout,        \* main: the response lines written so far
    request,       \* main: the local variable `request` (kept across iterations)
    mainpc         \* main: "loop", "exited" (end of input) or "crashed";
                   \* "idle" while the loop is not running

vars == <<fs, project_root, config, call, phase, ret, opened, stdin, stdout,
          request, mainpc>>

-----------------------------------------------------------------------------
(* Sequences, Python slices and str methods.                               *)

Min(a, b) == IF a < b THEN a ELSE b
Max(a, b) == IF a > b THEN a ELSE b

\* s[a:b] of Python for 0 <= a, 0 <= b (both clamped to len(s)).
Slice(s, a, b) ==
    LET hi == Min(b, Len(s))
    IN  IF a >= hi THEN <<>> ELSE SubSeq(s, a + 1, hi)

\* The slice taken one element late
PySliceFromOne(s, a, b) == Slice(s, a + 1, b)

\* s[a:b] of Python for any integers: a negative index counts from the end.
PySlice(s, a, b) ==
    LET n  == Len(s)
        lo == IF a < 0 THEN Max(0, n + a) ELSE Min(a, n)
        hi == IF b < 0 THEN Max(0, n + b) ELSE Min(b, n)
    IN  Slice(s, lo, hi)

RECURSIVE Concat(_)
\* "".join(parts)
Concat(parts) ==
    IF parts = <<>> THEN <<>> ELSE Head(parts) \o Concat(Tail(parts))

\* s[pos:].startswith(sub), pos 0-based
StartsAt(s, sub, pos) ==
    /\ pos + Len(sub) <= Len(s)
    /\ \A i \in 1..Len(sub) : s[pos + i] = sub[i]

\* str.find(sub, start): the lowest 0-based index >= start where sub occurs,
\* or -1.
Find(s, sub, start) ==
    LET found == {pos \in start..(Len(s) - Len(sub)) : StartsAt(s, sub, pos)}
    IN  IF found = {} THEN -1
        ELSE CHOOSE pos \in found : \A other \in found : pos <= other

\* sub in s
Contains(s, sub) == Find(s, sub, 0) # -1

RECURSIVE RFindChar(_, _, _)
\* str.rfind(c): the highest 0-based index of c among the first n characters,
\* or -1.
RFindChar(s, c, n) ==
    IF n = 0 THEN -1
    ELSE IF s[n] = c THEN n - 1
    ELSE RFindChar(s, c, n - 1)

RECURSIVE SplitOn(_, _)
\* str.split(sep) for a one-character separator: always at least one part.
SplitOn(s, sep) ==
    LET i == Find(s, <<sep>>, 0)
    IN  IF i = -1 THEN <<s>>
        ELSE <<Slice(s, 0, i)>> \o SplitOn(Slice(s, i + 1, Len(s)), sep)

\* The line boundaries of str.splitlines: \n \v \f \r FS GS RS NEL LS PS.
LineBoundary == {10, 11, 12, 13, 28, 29, 30, 133, 8232, 8233}

RECURSIVE SplitLinesFrom(_, _, _)
SplitLinesFrom(s, start, i) ==
    IF i > Len(s)
    THEN IF start > Len(s) THEN <<>> ELSE <<SubSeq(s, start, Len(s))>>
    ELSE IF s[i] \in LineBoundary
         THEN LET e == IF s[i] = 13 /\ i < Len(s) /\ s[i + 1] = 10
                       THEN i + 1 ELSE i
              IN  <<SubSeq(s, start, e)>> \o SplitLinesFrom(s, e + 1, e + 1)
         ELSE SplitLinesFrom(s, start, i + 1)

\* str.splitlines(keepends=True)
SplitLinesKeep(s) == SplitLinesFrom(s, 1, 1)

\* The characters str.strip() removes (str.isspace) below U+3000.
Whitespace ==
    {9, 10, 11, 12, 13, 28, 29, 30, 31, 32, 133, 160, 5760, 8232, 8233, 8239,
     8287} \cup (8192..8202)

RECURSIVE LStrip(_)
LStrip(s) ==
    IF s # <<>> /\ Head(s) \in Whitespace THEN LStrip(Tail(s)) ELSE s

RECURSIVE RStrip(_)
RStrip(s) ==
    IF s # <<>> /\ s[Len(s)] \in Whitespace
    THEN RStrip(SubSeq(s, 1, Len(s) - 1)) ELSE s

\* str.strip()
Strip(s) == RStrip(LStrip(s))

\* str.lower() of one character.  U+0130 lowers to the two characters
\* U+0069 U+0307; the ASCII and Latin-1 capitals lower by adding 32.
LowerChar(c) ==
    IF c \in 65..90 THEN <<c + 32>>
    ELSE IF c \in (192..222) \ {215} THEN <<c + 32>>
    ELSE IF c = 304 THEN <<105, 775>>
    ELSE <<c>>

RECURSIVE Lower(_)
\* str.lower(): every character lowered, in order.  The characters that lower
\* to one character are mapped in place; the text is cut at the first one
\* that lowers to more.
Lower(s) ==
    LET longer == {i \in 1..Len(s) : Len(LowerChar(s[i])) # 1}
    IN  IF longer = {} THEN <<>> \o [i \in 1..Len(s) |-> LowerChar(s[i])[1]]
        ELSE LET k == CHOOSE i \in longer : \A j \in longer : i <= j
             IN  Lower(SubSeq(s, 1, k - 1)) \o LowerChar(s[k])
                     \o Lower(SubSeq(s, k + 1, Len(s)))

RECURSIVE LexLess(_, _)
\* a < b for two strings (or two tuples of integers) in Python
LexLess(a, b) ==
    IF b = <<>> THEN FALSE
    ELSE IF a = <<>> THEN TRUE
    ELSE IF Head(a) # Head(b) THEN Head(a) < Head(b)
    ELSE LexLess(Tail(a), Tail(b))

RECURSIVE InsertSorted(_, _)
\* x, a record with a key, goes after every element whose key is not greater
\* than its own (the sort is stable)
InsertSorted(sorted, x) ==
    IF sorted = <<>> THEN <<x>>
    ELSE IF LexLess(x.key, Head(sorted).key) THEN <<x>> \o sorted
    ELSE <<Head(sorted)>> \o InsertSorted(Tail(sorted), x)

RECURSIVE SortedByKey(_)
\* sorted(s, key=...) / list.sort(key=...) of Python on records [key, val]:
\* stable and ascending by key
SortedByKey(s) ==
    IF s = <<>> THEN <<>>
    ELSE InsertSorted(SortedByKey(SubSeq(s, 1, Len(s) - 1)), s[Len(s)])

-----------------------------------------------------------------------------
(* Reading a file as text: open(path, 'r', encoding=enc).read().           *)

\* b[i] is a UTF-8 continuation byte
Cont(b, i) == i <= Len(b) /\ b[i] \in 128..191

RECURSIVE Utf8From(_, _, _)
\* The strict UTF-8 decoder: ok is FALSE where it raises UnicodeDecodeError.
\* A run of ASCII bytes decodes to itself in one step.
Utf8From(b, i, acc) ==
    IF i > Len(b) THEN [ok |-> TRUE, text |-> acc]
    ELSE LET c == b[i] IN
         IF c < 128
         THEN LET high == {j \in i..Len(b) : b[j] >= 128}
                  next == IF high = {} THEN Len(b) + 1
                          ELSE CHOOSE j \in high : \A k \in high : j <= k
              IN  Utf8From(b, next, acc \o SubSeq(b, i, next - 1))
         ELSE IF c \in 194..223 /\ Cont(b, i + 1)
         THEN Utf8From(b, i + 2, Append(acc, (c - 192) * 64 + (b[i + 1] - 128)))
         ELSE IF /\ c \in 224..239 /\ Cont(b, i + 1) /\ Cont(b, i + 2)
                 /\ (c = 224 => b[i + 1] >= 160)
                 /\ (c = 237 => b[i + 1] <= 159)
         THEN Utf8From(b, i + 3,
                       Append(acc, (c - 224) * 4096 + (b[i + 1] - 128) * 64
                                   + (b[i + 2] - 128)))
         ELSE IF /\ c \in 240..244
                 /\ Cont(b, i + 1) /\ Cont(b, i + 2) /\ Cont(b, i + 3)
                 /\ (c = 240 => b[i + 1] >= 144)
                 /\ (c = 244 => b[i + 1] <= 143)
         THEN Utf8From(b, i + 4,
                       Append(acc, (c - 240) * 262144 + (b[i + 1] - 128) * 4096
                                   + (b[i + 2] - 128) * 64 + (b[i + 3] - 128)))
         ELSE [ok |-> FALSE, text |-> <<>>]

\* The 16-bit unit at bytes i, i+1 in the given byte order
Unit16(b, i, bigEndian) ==
    IF bigEndian THEN b[i] * 256 + b[i + 1] ELSE b[i + 1] * 256 + b[i]

RECURSIVE Utf16From(_, _, _, _)
\* The UTF-16 decoder from byte i on: truncated data and unpaired surrogates
\* raise UnicodeDecodeError.
Utf16From(b, i, bigEndian, acc) ==
    IF i > Len(b) THEN [ok |-> TRUE, text |-> acc]
    ELSE IF i + 1 > Len(b) THEN [ok |-> FALSE, text |-> <<>>]
    ELSE LET u == Unit16(b, i, bigEndian) IN
         IF u \in 55296..56319
         THEN IF i + 3 <= Len(b) /\ Unit16(b, i + 2, bigEndian) \in 56320..57343
              THEN Utf16From(b, i + 4, bigEndian,
                             Append(acc, 65536 + (u - 55296) * 1024
                                         + (Unit16(b, i + 2, bigEndian) - 56320)))
              ELSE [ok |-> FALSE, text |-> <<>>]
         ELSE IF u \in 56320..57343 THEN [ok |-> FALSE, text |-> <<>>]
         ELSE Utf16From(b, i + 2, bigEndian, Append(acc, u))

\* The characters cp1252 gives the bytes 128..159 (0 where it has none)
Cp1252High ==
    <<8364, 0, 8218, 402, 8222, 8230, 8224, 8225, 710, 8240, 352, 8249, 338,
      0, 381, 0, 0, 8216, 8217, 8220, 8221, 8226, 8211, 8212, 732, 8482, 353,
      8250, 339, 0, 382, 376>>

RECURSIVE Cp1252From(_, _, _)
Cp1252From(b, i, acc) ==
    IF i > Len(b) THEN [ok |-> TRUE, text |-> acc]
    ELSE IF b[i] \in 128..159
         THEN IF Cp1252High[b[i] - 127] = 0 THEN [ok |-> FALSE, text |-> <<>>]
              ELSE Cp1252From(b, i + 1, Append(acc, Cp1252High[b[i] - 127]))
         ELSE Cp1252From(b, i + 1, Append(acc, b[i]))

RECURSIVE UniversalNewlines(_)
\* Text mode with newline=None: \r\n and a lone \r are read as \n.
UniversalNewlines(t) ==
    LET returns == {i \in 1..Len(t) : t[i] = 13}
    IN  IF returns = {} THEN t
        ELSE LET k    == CHOOSE i \in returns : \A j \in returns : i <= j
                 rest == IF k < Len(t) /\ t[k + 1] = 10 THEN k + 2 ELSE k + 1
             IN  SubSeq(t, 1, k - 1) \o <<10>>
                     \o UniversalNewlines(SubSeq(t, rest, Len(t)))

\* The bytes decoded with one encoding.  status is "ok", "UnicodeDecodeError"
\* or "UnicodeError": the utf-16 decoder of a text file decodes the whole
\* content in the native (little-endian) order when there is no byte order
\* mark and then, if nothing was undecodable, raises the plain UnicodeError
\* "UTF-16 stream does not start with BOM".
Decode(b, enc) ==
    LET r == CASE enc = "utf-8"   -> Utf8From(b, 1, <<>>)
               [] enc = "utf-16"  ->
                    IF Len(b) >= 2 /\ b[1] = 255 /\ b[2] = 254
                    THEN Utf16From(b, 3, FALSE, <<>>)
                    ELSE IF Len(b) >= 2 /\ b[1] = 254 /\ b[2] = 255
                    THEN Utf16From(b, 3, TRUE, <<>>)
                    ELSE Utf16From(b, 1, FALSE, <<>>)
               [] enc = "latin-1" -> [ok |-> TRUE, text |-> b]
               [] enc = "cp1252"  -> Cp1252From(b, 1, <<>>)
        noBom == /\ enc = "utf-16" /\ Len(b) >= 2
                 /\ ~(b[1] = 255 /\ b[2] = 254) /\ ~(b[1] = 254 /\ b[2] = 255)
    IN  IF ~r.ok THEN [status |-> "UnicodeDecodeError", text |-> <<>>]
        ELSE IF noBom THEN [status |-> "UnicodeError", text |-> <<>>]
        ELSE [status |-> "ok", text |-> UniversalNewlines(r.text)]

encodings_to_try == <<"utf-8", "utf-16", "latin-1", "cp1252">>

RECURSIVE TryEncodings(_, _)
\* The loop over encodings_to_try: the first encoding that decodes wins, a
\* UnicodeDecodeError moves on to the next one, any other exception ends the
\* loop with content None ("" stands for used_encoding None).
TryEncodings(b, encs) ==
    IF encs = <<>> THEN [content |-> <<>>, used_encoding |-> ""]
    ELSE LET d == Decode(b, Head(encs)) IN
         IF d.status = "ok" THEN [content |-> d.text, used_encoding |-> Head(encs)]
         ELSE IF d.status = "UnicodeDecodeError" THEN TryEncodings(b, Tail(encs))
         ELSE [content |-> <<>>, used_encoding |-> ""]

-----------------------------------------------------------------------------
(* The file system and pathlib.                                            *)

\* The characters of the segment names that occur in the model
Chars(name) ==
    CASE name = ".."        -> <<46, 46>>
      [] name = "etc"       -> <<101, 116, 99>>
      [] name = "passwd"    -> <<112, 97, 115, 115, 119, 100>>
      [] name = "proj"      -> <<112, 114, 111, 106>>
      [] name = "src"       -> <<115, 114, 99>>
      [] name = "app.py"    -> <<97, 112, 112, 46, 112, 121>>
      [] name = "README.md" -> <<82, 69, 65, 68, 77, 69, 46, 109, 100>>
      [] name = "t.txt"     -> <<116, 46, 116, 120, 116>>
      [] name = "aa.txt"    -> <<97, 97, 46, 116, 120, 116>>
      [] name = "Zed.txt"   -> <<90, 101, 100, 46, 116, 120, 116>>
      [] name = "logo.png"  -> <<108, 111, 103, 111, 46, 112, 110, 103>>
      [] name = ".env"      -> <<46, 101, 110, 118>>
      [] name = ".git"      -> <<46, 103, 105, 116>>
      [] name = ".hidden"   -> <<46, 104, 105, 100, 100, 101, 110>>
      [] name = ".gitignore" -> <<46, 103, 105, 116, 105, 103, 110, 111, 114, 101>>
      [] name = "Docs"      -> <<68, 111, 99, 115>>
      [] name = "Pic.PNG"   -> <<80, 105, 99, 46, 80, 78, 71>>
      [] name = "config"    -> <<99, 111, 110, 102, 105, 103>>
      [] name = "build"     -> <<98, 117, 105, 108, 100>>
      [] name = "out.txt"   -> <<111, 117, 116, 46, 116, 120, 116>>
      [] name = "nofile"    -> <<110, 111, 102, 105, 108, 101>>
      [] name = "srv"       -> <<115, 114, 118>>
      [] name = "old"       -> <<111, 108, 100>>
      [] OTHER              -> <<>>

\* A directory lists its entries in the order the operating system gives them.
Dir(entries) == [type |-> "dir", entries |-> entries, size |-> 4096]
File(bytes)  == [type |-> "file", bytes |-> bytes, size |-> Len(bytes), readable |-> TRUE]

\* A regular file that open() refuses (PermissionError): stat works
Unreadable(bytes) == [File(bytes) EXCEPT !.readable = FALSE]

\* A regular file of the given size of which only the leading bytes are
\* kept: for the files no operation reads because of their size
Sized(bytes, size) == [File(bytes) EXCEPT !.size = size]

\* A symbolic link to nothing: a directory lists it, but it does not exist
\* to exists(), is_file() and is_dir(), and stat() raises FileNotFoundError
Dangling == [type |-> "dangling", size |-> 0, readable |-> FALSE]

\* A result no path has: the target of a path that does not exist
NoPath == <<"">>

Parent(p) == IF p = <<>> THEN <<>> ELSE SubSeq(p, 1, Len(p) - 1)

RECURSIVE Walk(_, _, _)
\* What the operating system makes of a path: each segment is looked up in
\* the directory reached so far, ".." being that directory's parent.
Walk(f, cur, segs) ==
    IF segs = <<>> THEN cur
    ELSE IF f[cur].type # "dir" THEN NoPath
    ELSE LET nxt == IF Head(segs) = ".." THEN Parent(cur)
                    ELSE Append(cur, Head(segs))
         IN  IF nxt \notin DOMAIN f THEN NoPath
             ELSE Walk(f, nxt, Tail(segs))

\* The normalised location of the absolute path p, or NoPath
Lookup(f, p) == Walk(f, <<>>, p)

Exists(f, p) == Lookup(f, p) # NoPath /\ f[Lookup(f, p)].type # "dangling"
IsFile(f, p) == Exists(f, p) /\ f[Lookup(f, p)].type = "file"
IsDir(f, p)  == Exists(f, p) /\ f[Lookup(f, p)].type = "dir"
Stat(f, p)   == f[Lookup(f, p)]

\* self.project_root / path: an absolute path replaces the root, a relative
\* one is appended segment by segment; ".." segments stay as they are.
JoinPath(root, path) == IF path.abs THEN path.segs ELSE root \o path.segs

\* `if path`: the path argument is a non-empty string
Truthy(path) == path.abs \/ path.segs # <<>>

IsPrefix(a, b) == Len(a) <= Len(b) /\ SubSeq(b, 1, Len(a)) = a

\* PurePath.relative_to, which compares segments and raises ValueError when
\* root is no prefix of p
RelativeTo(p, root) ==
    IF IsPrefix(root, p)
    THEN [ok |-> TRUE, rel |-> SubSeq(p, Len(root) + 1, Len(p))]
    ELSE [ok |-> FALSE, rel |-> <<>>]

\* PurePath.name
PathName(p) == IF p = <<>> THEN "" ELSE p[Len(p)]

\* PurePath.suffix of a name, as characters: from the last dot on, unless
\* that dot is the first or the last character.
Suffix(name) ==
    LET c == Chars(name)
        i == RFindChar(c, 46, Len(c))
    IN  IF 0 < i /\ i < Len(c) - 1 THEN Slice(c, i, Len(c)) ELSE <<>>

\* The loop over encodings_to_try on a file: open() raising anything but
\* UnicodeDecodeError ends the loop at once with content None
OpenAndRead(node) ==
    IF node.readable THEN TryEncodings(node.bytes, encodings_to_try)
    ELSE [content |-> <<>>, used_encoding |-> ""]

-----------------------------------------------------------------------------
(* Results.  An operation returns a payload (kind "ok"), returns            *)
(* {"error": message} (kind "error"), or raises (kind "raise").  An optional *)
(* value is <<>> for None and <<v>> for v.                                  *)

Error(message) == [kind |-> "error", error |-> message]
Raise(exception) == [kind |-> "raise", exception |-> exception]
None == <<>>
Some(v) == <<v>>

-----------------------------------------------------------------------------
(* The project root and its saved configuration                            *)

RECURSIVE Normalize(_, _)
\* The path with its ".." segments resolved against the segments before them
Normalize(p, acc) ==
    IF p = <<>> THEN acc
    ELSE IF Head(p) = ".." THEN Normalize(Tail(p), Parent(acc))
    ELSE Normalize(Tail(p), Append(acc, Head(p)))

\* The working directory of the server process
cwd == <<"proj">>

\* Path(path).resolve(): absolute, ".." resolved (the tree has no links)
Resolve(path) ==
    Normalize(IF path.abs THEN path.segs ELSE cwd \o path.segs, <<>>)

\* __init__ and _load_config: the root is the working directory unless a
\* configuration was saved (cfg is None when there is no readable one)
_load_config(cfg) ==
    IF cfg = None THEN cwd
    ELSE Resolve([abs |-> TRUE, segs |-> cfg[1]])

\* _save_config: the configuration after it, saved telling whether the
\* file could be written (a failure is logged and nothing else)
_save_config(cfg, root, saved) == IF saved THEN Some(root) ELSE cfg

\* set_project_path assigning the root before it has tested the path
set_project_path_unchecked(f, root, cfg, path, saved) ==
    LET new_path == Resolve(path)
        same == [project_root |-> new_path, config |-> cfg]
    IN  IF ~Exists(f, new_path)
        THEN [ret |-> Error("Path does not exist")] @@ same
        ELSE IF ~IsDir(f, new_path)
        THEN [ret |-> Error("Path is not a directory")] @@ same
        ELSE [ret |-> [kind |-> "ok", success |-> TRUE, old_path |-> root,
                       new_path |-> new_path],
              project_root |-> new_path,
              config |-> _save_config(cfg, new_path, saved)]

\* set_project_path(path): the result, the root and the configuration
set_project_path(f, root, cfg, path, saved) ==
    LET new_path == Resolve(path)
        same == [project_root |-> root, config |-> cfg]
    IN  IF ~Exists(f, new_path)
        THEN [ret |-> Error("Path does not exist")] @@ same
        ELSE IF ~IsDir(f, new_path)
        THEN [ret |-> Error("Path is not a directory")] @@ same
        ELSE [ret |-> [kind |-> "ok", success |-> TRUE, old_path |-> root,
                       new_path |-> new_path],
              project_root |-> new_path,
              config |-> _save_config(cfg, new_path, saved)]

\* get_project_path()
get_project_path(f, root) ==
    [kind |-> "ok", project_path |-> root, exists |-> Exists(f, root),
     is_directory |-> IsDir(f, root)]

-----------------------------------------------------------------------------
(* read_file                                                               *)

read_file(f, root, file_path, start_line, end_line) ==
    LET full_path == JoinPath(root, file_path) IN
    IF ~Exists(f, full_path) THEN Error("File not found")
    ELSE IF ~IsFile(f, full_path) THEN Error("Path is not a file")
    ELSE
    LET file_size == Stat(f, full_path).size IN
    IF file_size > 5 * 1024 * 1024 THEN Error("File too large")
    ELSE
    LET read == OpenAndRead(Stat(f, full_path)) IN
    IF read.used_encoding = ""
    THEN Error("Cannot read file as text (binary file or encoding issue)")
    ELSE
    LET lines       == SplitLinesKeep(read.content)
        total_lines == Len(lines)
        end         == IF end_line = None THEN total_lines ELSE end_line[1]
        start_idx   == Max(0, start_line - 1)
        end_idx     == Min(total_lines, end)
    IN  [kind           |-> "ok",
         file_path      |-> file_path,
         full_path      |-> full_path,
         content        |-> Concat(PySlice(lines, start_idx, end_idx)),
         total_lines    |-> total_lines,
         returned_lines |-> end_idx - start_idx,
         line_range     |-> <<start_line, end_idx>>,
         file_size      |-> file_size,
         encoding       |-> read.used_encoding]

-----------------------------------------------------------------------------
(* list_directory                                                          *)

RECURSIVE StatOk(_, _, _)
\* The names of a directory whose item.stat() does not raise, in order
StatOk(f, dir, names) ==
    IF names = <<>> THEN <<>>
    ELSE (IF Exists(f, Append(dir, Head(names))) THEN <<Head(names)>> ELSE <<>>)
         \o StatOk(f, dir, Tail(names))

\* One entry of list_directory's items
item_info(f, target_path, name) ==
    LET item == Append(target_path, name) IN
    [name      |-> name,
     type      |-> IF IsDir(f, item) THEN "directory" ELSE "file",
     size      |-> IF IsFile(f, item) THEN Some(Stat(f, item).size) ELSE None,
     extension |-> IF IsFile(f, item) THEN Some(Suffix(name)) ELSE None]

list_directory(f, root, path) ==
    LET target_path == IF Truthy(path) THEN JoinPath(root, path) ELSE root IN
    IF ~Exists(f, target_path) THEN Error("Directory not found")
    ELSE IF ~IsDir(f, target_path) THEN Error("Path is not a directory")
    ELSE
    LET entries == StatOk(f, target_path, Stat(f, target_path).entries)
        keyed   == [i \in 1..Len(entries) |->
                      LET info == item_info(f, target_path, entries[i]) IN
                      [key |-> <<IF info.type = "file" THEN 1 ELSE 0>>
                               \o Lower(Chars(info.name)),
                       val |-> info]]
        sorted  == SortedByKey(keyed)
        items   == [i \in 1..Len(sorted) |-> sorted[i].val]
    IN  [kind        |-> "ok",
         path        |-> path,
         full_path   |-> target_path,
         items       |-> items,
         total_count |-> Len(items)]

-----------------------------------------------------------------------------
(* get_file_info                                                           *)

\* How many bytes from b[i] on the UTF-8 decoder reports as one undecodable
\* run: the lead byte and the continuation bytes that were still valid.
BadRun(b, i) ==
    LET c == b[i]
        ok2 == /\ Cont(b, i + 1)
               /\ (c = 224 => b[i + 1] >= 160) /\ (c = 237 => b[i + 1] <= 159)
               /\ (c = 240 => b[i + 1] >= 144) /\ (c = 244 => b[i + 1] <= 143)
    IN  IF c \in 224..244 /\ ok2
        THEN IF c \in 240..244 /\ Cont(b, i + 2) THEN 3 ELSE 2
        ELSE 1

RECURSIVE Utf8Ignore(_, _, _)
\* bytes.decode('utf-8', errors='ignore'): undecodable runs are dropped
Utf8Ignore(b, i, acc) ==
    IF i > Len(b) THEN acc
    ELSE LET c == b[i] IN
         IF c < 128 THEN Utf8Ignore(b, i + 1, Append(acc, c))
         ELSE IF c \in 194..223 /\ Cont(b, i + 1)
         THEN Utf8Ignore(b, i + 2, Append(acc, (c - 192) * 64 + (b[i + 1] - 128)))
         ELSE IF /\ c \in 224..239 /\ Cont(b, i + 1) /\ Cont(b, i + 2)
                 /\ (c = 224 => b[i + 1] >= 160)
                 /\ (c = 237 => b[i + 1] <= 159)
         THEN Utf8Ignore(b, i + 3,
                         Append(acc, (c - 224) * 4096 + (b[i + 1] - 128) * 64
                                     + (b[i + 2] - 128)))
         ELSE IF /\ c \in 240..244
                 /\ Cont(b, i + 1) /\ Cont(b, i + 2) /\ Cont(b, i + 3)
                 /\ (c = 240 => b[i + 1] >= 144)
                 /\ (c = 244 => b[i + 1] <= 143)
         THEN Utf8Ignore(b, i + 4,
                         Append(acc, (c - 240) * 262144 + (b[i + 1] - 128) * 4096
                                     + (b[i + 2] - 128) * 64 + (b[i + 3] - 128)))
         ELSE Utf8Ignore(b, i + BadRun(b, i), acc)

\* open(path, 'r', encoding='utf-8', errors='ignore').read()
ReadIgnoringErrors(b) == UniversalNewlines(Utf8Ignore(b, 1, <<>>))

RECURSIVE CountWords(_, _)
\* len(content.split()): the runs of characters that are not whitespace
CountWords(t, inWord) ==
    IF t = <<>> THEN 0
    ELSE IF Head(t) \in Whitespace THEN CountWords(Tail(t), FALSE)
    ELSE (IF inWord THEN 0 ELSE 1) + CountWords(Tail(t), TRUE)

get_file_info(f, root, file_path) ==
    LET full_path == JoinPath(root, file_path) IN
    IF ~Exists(f, full_path) THEN Error("File not found")
    ELSE
    LET stat == Stat(f, full_path)
        text == IF IsFile(f, full_path) /\ stat.size < 1024 * 1024
                   /\ stat.readable
                THEN Some(ReadIgnoringErrors(stat.bytes)) ELSE None
        lines == IF text = None THEN <<>> ELSE SplitOn(text[1], 10)
    IN  [kind         |-> "ok",
         path         |-> file_path,
         full_path    |-> full_path,
         name         |-> PathName(full_path),
         size         |-> stat.size,
         extension    |-> Suffix(PathName(full_path)),
         is_directory |-> IsDir(f, full_path),
         is_file      |-> IsFile(f, full_path),
         lines        |-> IF text = None THEN None ELSE Some(Len(lines)),
         characters   |-> IF text = None THEN None ELSE Some(Len(text[1])),
         words        |-> IF text = None THEN None
                          ELSE Some(CountWords(text[1], FALSE)),
         blank_lines  |-> IF text = None THEN None
                          ELSE Some(Cardinality({i \in 1..Len(lines) :
                                                    Strip(lines[i]) = <<>>}))]

-----------------------------------------------------------------------------
(* get_structure                                                           *)

NoChildren == <<>>

TruncatedNode ==
    [type |-> "directory", truncated |-> TRUE, size |-> None,
     extension |-> None, children |-> NoChildren, error |-> ""]
FileNode(size, extension) ==
    [type |-> "file", truncated |-> FALSE, size |-> Some(size),
     extension |-> Some(extension), children |-> NoChildren, error |-> ""]
DirNode(children) ==
    [type |-> "directory", truncated |-> FALSE, size |-> None,
     extension |-> None, children |-> children, error |-> ""]
ErrorNode(message) ==
    [type |-> "", truncated |-> FALSE, size |-> None,
     extension |-> None, children |-> NoChildren, error |-> message]

\* Every name with a leading dot skipped
HiddenNameNoAllowList(name) == Chars(name) # <<>> /\ Head(Chars(name)) = 46

\* The names of a directory that get_structure skips
HiddenName(name) ==
    /\ Chars(name) # <<>> /\ Head(Chars(name)) = 46
    /\ name \notin {".env", ".gitignore", ".dockerignore"}

RECURSIVE SelectDirs(_, _, _, _)
\* [item for item in items if item.is_dir()] when wantDirs, and
\* [item for item in items if item.is_file()] otherwise
SelectDirs(f, dir, names, wantDirs) ==
    IF names = <<>> THEN <<>>
    ELSE LET item == Append(dir, Head(names))
             take == IF wantDirs THEN IsDir(f, item) ELSE IsFile(f, item)
         IN  (IF take THEN <<Head(names)>> ELSE <<>>)
             \o SelectDirs(f, dir, Tail(names), wantDirs)

\* The names sorted with capitals before small letters
SortedByNameAsIs(names) ==
    LET keyed  == [i \in 1..Len(names) |->
                     [key |-> Chars(names[i]), val |-> names[i]]]
        sorted == SortedByKey(keyed)
    IN  [i \in 1..Len(sorted) |-> sorted[i].val]

\* sorted(names, key=lambda x: x.name.lower())
SortedByLowerName(names) ==
    LET keyed  == [i \in 1..Len(names) |->
                     [key |-> Lower(Chars(names[i])), val |-> names[i]]]
        sorted == SortedByKey(keyed)
    IN  [i \in 1..Len(sorted) |-> sorted[i].val]

RECURSIVE DropHidden(_)
DropHidden(names) ==
    IF names = <<>> THEN <<>>
    ELSE (IF HiddenName(Head(names)) THEN <<>> ELSE <<Head(names)>>)
         \o DropHidden(Tail(names))

RECURSIVE build_tree(_, _, _, _)
build_tree(f, current_path, current_depth, max_depth) ==
    IF current_depth >= max_depth THEN TruncatedNode
    ELSE IF ~Exists(f, current_path) THEN ErrorNode("Path not found")
    ELSE IF IsFile(f, current_path)
    THEN FileNode(Stat(f, current_path).size, Suffix(PathName(current_path)))
    ELSE
    LET items == Stat(f, current_path).entries
        dirs  == SortedByLowerName(SelectDirs(f, current_path, items, TRUE))
        files == SortedByLowerName(SelectDirs(f, current_path, items, FALSE))
        shown == DropHidden(dirs \o files)
    IN  DirNode([i \in 1..Len(shown) |->
                   [name |-> shown[i],
                    node |-> build_tree(f, Append(current_path, shown[i]),
                                        current_depth + 1, max_depth)]])

get_structure(f, root, path, max_depth) ==
    LET base_path == IF Truthy(path) THEN JoinPath(root, path) ELSE root
        rel       == RelativeTo(base_path, root)
    IN  IF Truthy(path) /\ ~rel.ok THEN Raise("ValueError")
        ELSE [kind         |-> "ok",
              name         |-> PathName(base_path),
              path         |-> IF Truthy(path) THEN rel.rel ELSE <<>>,
              project_root |-> root,
              structure    |-> build_tree(f, base_path, 0, max_depth)]

-----------------------------------------------------------------------------
(* os.walk                                                                 *)

RECURSIVE NonDirs(_, _, _)
\* The names os.walk yields as files: every entry that is not a directory
NonDirs(f, dir, names) ==
    IF names = <<>> THEN <<>>
    ELSE (IF IsDir(f, Append(dir, Head(names))) THEN <<>> ELSE <<Head(names)>>)
         \o NonDirs(f, dir, Tail(names))

RECURSIVE WalkDirs(_, _, _, _)
RECURSIVE os_walk(_, _, _)
\* os.walk(top) with `dirs[:] = [d for d in dirs if d not in skip]` applied
\* to each block: the files in the order the loops meet them, each with the
\* path it is given (top joined with the names, ".." segments kept).
os_walk(f, top, skip) ==
    IF ~IsDir(f, top) THEN <<>>
    ELSE LET entries == Stat(f, top).entries
             dirs    == SelectDirs(f, top, entries, TRUE)
             files   == NonDirs(f, top, entries)
         IN  [i \in 1..Len(files) |-> Append(top, files[i])]
             \o WalkDirs(f, top, dirs, skip)

WalkDirs(f, top, dirs, skip) ==
    IF dirs = <<>> THEN <<>>
    ELSE (IF Head(dirs) \in skip THEN <<>>
          ELSE os_walk(f, Append(top, Head(dirs)), skip))
         \o WalkDirs(f, top, Tail(dirs), skip)

-----------------------------------------------------------------------------
(* _is_likely_binary_file                                                  *)

\* binary_extensions: .exe .dll .so .dylib .bin .dat .db .sqlite .jpg .jpeg
\* .png .gif .bmp .ico .tiff .webp .mp3 .mp4 .avi .mov .wav .flac .ogg .pdf
\* .doc .docx .xls .xlsx .ppt .pptx .zip .rar .7z .tar .gz .bz2 .woff .woff2
\* .ttf .otf .eot
binary_extensions ==
    {<<46, 101, 120, 101>>, <<46, 100, 108, 108>>, <<46, 115, 111>>,
     <<46, 100, 121, 108, 105, 98>>, <<46, 98, 105, 110>>,
     <<46, 100, 97, 116>>, <<46, 100, 98>>,
     <<46, 115, 113, 108, 105, 116, 101>>, <<46, 106, 112, 103>>,
     <<46, 106, 112, 101, 103>>, <<46, 112, 110, 103>>,
     <<46, 103, 105, 102>>, <<46, 98, 109, 112>>, <<46, 105, 99, 111>>,
     <<46, 116, 105, 102, 102>>, <<46, 119, 101, 98, 112>>,
     <<46, 109, 112, 51>>, <<46, 109, 112, 52>>, <<46, 97, 118, 105>>,
     <<46, 109, 111, 118>>, <<46, 119, 97, 118>>, <<46, 102, 108, 97, 99>>,
     <<46, 111, 103, 103>>, <<46, 112, 100, 102>>, <<46, 100, 111, 99>>,
     <<46, 100, 111, 99, 120>>, <<46, 120, 108, 115>>,
     <<46, 120, 108, 115, 120>>, <<46, 112, 112, 116>>,
     <<46, 112, 112, 116, 120>>, <<46, 122, 105, 112>>, <<46, 114, 97, 114>>,
     <<46, 55, 122>>, <<46, 116, 97, 114>>, <<46, 103, 122>>,
     <<46, 98, 122, 50>>, <<46, 119, 111, 102, 102>>,
     <<46, 119, 111, 102, 102, 50>>, <<46, 116, 116, 102>>,
     <<46, 111, 116, 102>>, <<46, 101, 111, 116>>}

\* The bytes counted with 127 among them
PrintableByteOrDel(byte) == (32 <= byte /\ byte <= 127) \/ byte \in {9, 10, 13}

\* The bytes counted as printable: 32 <= byte < 127 or byte in [9, 10, 13]
PrintableByte(byte) == (32 <= byte /\ byte < 127) \/ byte \in {9, 10, 13}

\* Whether the check opens the file: it does not when the extension decides
BinaryCheckOpens(name) == Lower(Suffix(name)) \notin binary_extensions

\* printable_chars / len(sample) < 0.7 is decided in integers: the quotient
\* of two integers rounds to the double 0.7 exactly when it equals 7/10.
\* open() raising (no such file, a directory, no permission) gives True.
_is_likely_binary_file(f, file_path) ==
    IF Lower(Suffix(PathName(file_path))) \in binary_extensions THEN TRUE
    ELSE IF ~IsFile(f, file_path) \/ ~Stat(f, file_path).readable THEN TRUE
    ELSE LET sample == Slice(Stat(f, file_path).bytes, 0, 512)
             printable_chars ==
                 Cardinality({i \in 1..Len(sample) : PrintableByte(sample[i])})
         IN  IF \E i \in 1..Len(sample) : sample[i] = 0 THEN TRUE
             ELSE IF Len(sample) > 0 /\ printable_chars * 10 < 7 * Len(sample)
             THEN TRUE
             ELSE FALSE

-----------------------------------------------------------------------------
(* search_in_files                                                         *)

\* The directory names the walk of search_in_files does not enter
search_in_files_skip ==
    {".git", "node_modules", "__pycache__", ".venv", "venv", "target",
     "build", "dist", ".cache", "tmp", "temp", ".next", "coverage",
     ".nyc_output", "logs", ".logs"}

\* The extension filter: any(suffix.lower() == ext.lower() if
\* ext.startswith('.') else suffix.lower() == '.' + ext.lower())
ExtensionWanted(name, file_extensions) ==
    \E i \in 1..Len(file_extensions) :
        LET ext == file_extensions[i] IN
        IF ext # <<>> /\ Head(ext) = 46
        THEN Lower(Suffix(name)) = Lower(ext)
        ELSE Lower(Suffix(name)) = <<46>> \o Lower(ext)

\* "column": pos + 1
Column(pos) == pos + 1

\* context_start = max(0, pos - 50)
ContextStart(pos) == Max(0, pos - 50)

\* context_end = min(len(line), pos + len(keyword) + 50)
ContextEnd(line, keyword, pos) == Min(Len(line), pos + Len(keyword) + 50)

\* line_num of enumerate(lines, 1) for the line at index i (from 1) of lines
LineNumber(i) == i

\* A cap that lets one entry too many through
CapReachedLate(matches, max_results) == Len(matches) > max_results

\* if len(results["matches"]) >= max_results: break
CapReached(matches, max_results) == Len(matches) >= max_results

\* An ordering by ascending match_count
MatchSortKeyAscending(m) == <<m.match_count>> \o Chars(m.file_name)

\* The sort key (-x["match_count"], x["file_name"]) as one sequence
MatchSortKey(m) == <<0 - m.match_count>> \o Chars(m.file_name)

\* The text searched for or in: lower-cased unless case_sensitive
SearchText(text, case_sensitive) == IF case_sensitive THEN text ELSE Lower(text)

\* actual_match: the text of the line where the lower-cased line has the
\* lower-cased keyword from pos on (case-insensitive), else the keyword
ActualMatch(line, keyword, case_sensitive, actual_match_start) ==
    IF ~case_sensitive /\ actual_match_start # -1
    THEN Slice(line, actual_match_start, actual_match_start + Len(keyword))
    ELSE keyword

\* The record appended to matches_in_file for the match found at pos
MatchRecord(line, line_num, keyword, case_sensitive, pos) ==
    [line_number  |-> LineNumber(line_num),
     column       |-> Column(pos),
     line_content |-> Strip(line),
     context      |-> Slice(line, ContextStart(pos), ContextEnd(line, keyword, pos)),
     matched_text |->
         ActualMatch(line, keyword, case_sensitive,
                     Find(Lower(line), SearchText(keyword, case_sensitive), pos))]

RECURSIVE line_matches(_, _, _, _, _, _, _)
RECURSIVE line_matches_at(_, _, _, _, _, _, _)
RECURSIVE line_matches_after(_, _, _, _, _, _, _)
\* The `while True` loop over one line: matches_in_file after it.
line_matches(line, line_num, keyword, case_sensitive, max_matches_per_file, start, matches_in_file) ==
    line_matches_at(line, line_num, keyword, case_sensitive,
                    max_matches_per_file,
                    Find(SearchText(line, case_sensitive),
                         SearchText(keyword, case_sensitive), start),
                    matches_in_file)

\* One turn of the loop, pos being what search_line.find gave
line_matches_at(line, line_num, keyword, case_sensitive, max_matches_per_file, pos, matches_in_file) ==
    IF pos = -1 THEN matches_in_file
    ELSE line_matches_after(line, line_num, keyword, case_sensitive,
                            max_matches_per_file, pos,
                            Append(matches_in_file,
                                   MatchRecord(line, line_num, keyword,
                                               case_sensitive, pos)))

\* The end of the turn: start = pos + 1, and the break at the limit
line_matches_after(line, line_num, keyword, case_sensitive, max_matches_per_file, pos, found) ==
    IF Len(found) >= max_matches_per_file THEN found
    ELSE line_matches(line, line_num, keyword, case_sensitive,
                      max_matches_per_file, pos + 1, found)

RECURSIVE file_matches(_, _, _, _, _, _)
RECURSIVE file_matches_after(_, _, _, _, _, _)
\* The loop `for line_num, line in enumerate(lines, 1)` from line_num on
file_matches(lines, line_num, keyword, case_sensitive, max_matches_per_file, matches_in_file) ==
    IF line_num > Len(lines) THEN matches_in_file
    ELSE IF ~Contains(SearchText(lines[line_num], case_sensitive),
                      SearchText(keyword, case_sensitive))
    THEN file_matches(lines, line_num + 1, keyword, case_sensitive,
                      max_matches_per_file, matches_in_file)
    ELSE file_matches_after(lines, line_num, keyword, case_sensitive,
                            max_matches_per_file,
                            line_matches(lines[line_num], line_num, keyword,
                                         case_sensitive, max_matches_per_file,
                                         0, matches_in_file))

\* The break out of the loop over the lines at the limit
file_matches_after(lines, line_num, keyword, case_sensitive, max_matches_per_file, found) ==
    IF Len(found) >= max_matches_per_file THEN found
    ELSE file_matches(lines, line_num + 1, keyword, case_sensitive,
                      max_matches_per_file, found)

\* results with the entry of a file whose matches are matches_in_file
record_file(root, file_path, stat, used_encoding, matches_in_file, with_match) ==
    IF matches_in_file = <<>> THEN with_match
    ELSE [with_match EXCEPT !.matches =
             Append(@, [file_path   |-> RelativeTo(file_path, root).rel,
                        file_name   |-> PathName(file_path),
                        file_size   |-> stat.size,
                        encoding    |-> used_encoding,
                        match_count |-> Len(matches_in_file),
                        matches     |-> matches_in_file])]

\* The body with a file that could not be read ending the whole search
search_content_aborting(root, file_path, stat, a, read, counted) ==
    IF read.used_encoding = "" THEN [counted EXCEPT !.failed = TRUE]
    ELSE IF ~Contains(SearchText(read.content, a.case_sensitive),
                      SearchText(a.keyword, a.case_sensitive))
    THEN counted
    ELSE record_file(root, file_path, stat, read.used_encoding,
                     file_matches(SplitOn(read.content, 10), 1, a.keyword,
                                  a.case_sensitive, a.max_matches_per_file,
                                  <<>>),
                     [counted EXCEPT !.files_with_matches = @ + 1])

\* The body of `for file in files` once the file has been read: counted is
\* results with the file counted in total_files_searched
search_content(root, file_path, stat, a, read, counted) ==
    IF read.used_encoding = "" THEN counted
    ELSE IF ~Contains(SearchText(read.content, a.case_sensitive),
                      SearchText(a.keyword, a.case_sensitive))
    THEN counted
    ELSE record_file(root, file_path, stat, read.used_encoding,
                     file_matches(SplitOn(read.content, 10), 1, a.keyword,
                                  a.case_sensitive, a.max_matches_per_file,
                                  <<>>),
                     [counted EXCEPT !.files_with_matches = @ + 1])

\* The body of `for file in files` for one file: the results after it.
\* results.opened lists the files the body opened, in order.
search_one_file(f, root, file_path, a, results) ==
    IF Len(a.file_extensions) > 0
       /\ ~ExtensionWanted(PathName(file_path), a.file_extensions)
    THEN results
    ELSE IF ~Exists(f, file_path) THEN results
    ELSE IF Stat(f, file_path).size > 10 * 1024 * 1024 THEN results
    ELSE IF _is_likely_binary_file(f, file_path)
    THEN [results EXCEPT !.opened =
             IF BinaryCheckOpens(PathName(file_path))
             THEN Append(@, file_path) ELSE @]
    ELSE search_content(root, file_path, Stat(f, file_path), a,
                        OpenAndRead(Stat(f, file_path)),
                        [results EXCEPT !.total_files_searched = @ + 1,
                                        !.opened = Append(@, file_path)])

RECURSIVE search_walk(_, _, _, _, _)
\* The two nested loops over the walk: both break once max_results files
\* with matches are recorded.  failed is set where relative_to raises.
search_walk(f, root, files, a, results) ==
    IF files = <<>> THEN results
    ELSE IF CapReached(results.matches, a.max_results) THEN results
    ELSE IF ~RelativeTo(Head(files), root).ok
    THEN [results EXCEPT !.failed = TRUE]
    ELSE search_walk(f, root, Tail(files), a,
                     search_one_file(f, root, Head(files), a, results))

\* results["matches"].sort(key=lambda x: (-x["match_count"], x["file_name"]))
sort_matches(matches) ==
    [i \in 1..Len(matches) |->
        SortedByKey([j \in 1..Len(matches) |->
                        [key |-> MatchSortKey(matches[j]),
                         val |-> matches[j]]])[i].val]

\* What search_in_files returns once the walk is over, and the files opened
search_in_files_return(a, search_path, results) ==
    IF results.failed
    THEN [ret |-> Error("Search failed"), opened |-> results.opened]
    ELSE [ret |-> [kind                 |-> "ok",
                   keyword              |-> a.keyword,
                   search_path          |-> search_path,
                   case_sensitive       |-> a.case_sensitive,
                   total_files_searched |-> results.total_files_searched,
                   files_with_matches   |-> results.files_with_matches,
                   matches              |-> sort_matches(results.matches)],
          opened |-> results.opened]

\* The run of search_in_files on the arguments a: what it returns (ret) and
\* the files it opened (opened).
search_in_files_run(f, root, a) ==
    IF Truthy(a.path) /\ ~RelativeTo(JoinPath(root, a.path), root).ok
    THEN [ret |-> Raise("ValueError"), opened |-> <<>>]
    ELSE IF Strip(a.keyword) = <<>>
    THEN [ret |-> Error("Keyword cannot be empty"), opened |-> <<>>]
    ELSE search_in_files_return(
             a,
             IF Truthy(a.path) THEN RelativeTo(JoinPath(root, a.path), root).rel
             ELSE <<>>,
             search_walk(f, root,
                         os_walk(f, IF Truthy(a.path) THEN JoinPath(root, a.path)
                                    ELSE root,
                                 search_in_files_skip),
                         a,
                         [total_files_searched |-> 0, files_with_matches |-> 0,
                          matches |-> <<>>, opened |-> <<>>, failed |-> FALSE]))

search_in_files(f, root, a) == search_in_files_run(f, root, a).ret

-----------------------------------------------------------------------------
(* search_files                                                            *)

\* The directory names the walk of search_files does not enter
search_files_skip ==
    {".git", "node_modules", "__pycache__", ".venv", "venv", "target",
     "build", "dist", ".cache", "tmp", "temp"}

RECURSIVE GlobMatch(_, _)
\* fnmatch.fnmatchcase(name, pat) for patterns of literal characters, '*'
\* and '?' (the patterns of the model hold no '[')
GlobMatch(name, pat) ==
    IF pat = <<>> THEN name = <<>>
    ELSE IF Head(pat) = 42
         THEN \/ GlobMatch(name, Tail(pat))
              \/ (name # <<>> /\ GlobMatch(Tail(name), pat))
         ELSE /\ name # <<>>
              /\ (Head(pat) = 63 \/ Head(pat) = Head(name))
              /\ GlobMatch(Tail(name), Tail(pat))

RECURSIVE RemoveChar(_, _)
\* str.replace(c, '')
RemoveChar(t, c) ==
    IF t = <<>> THEN <<>>
    ELSE (IF Head(t) = c THEN <<>> ELSE <<Head(t)>>) \o RemoveChar(Tail(t), c)

RECURSIVE content_matches(_, _, _, _)
\* The loop `for i, line in enumerate(lines, 1)` of search_files from line i
\* on: it breaks at the fifth match.
content_matches(lines, i, literal, matches) ==
    IF i > Len(lines) THEN matches
    ELSE IF Contains(Lower(lines[i]), literal)
         THEN LET found == Append(matches, [line_number |-> i,
                                            content |-> Strip(lines[i])])
              IN  IF Len(found) >= 5 THEN found
                  ELSE content_matches(lines, i + 1, literal, found)
         ELSE content_matches(lines, i + 1, literal, matches)

\* str(relative_path.parent): the segments joined by '/', "." when none
DirectoryString(segs) ==
    IF segs = <<>> THEN <<46>>
    ELSE Concat([i \in 1..Len(segs) |->
                   (IF i = 1 THEN <<>> ELSE <<47>>) \o Chars(segs[i])])

\* The body of `for file in files` of search_files for one file
search_files_one(f, root, file_path, a, state) ==
    LET file == PathName(file_path)
        relative_path == RelativeTo(file_path, root).rel
        stat == Stat(f, file_path)
        literal == RemoveChar(Lower(a.pattern), 42)
        content == ReadIgnoringErrors(stat.bytes)
        searched == a.include_content /\ stat.size < 1024 * 1024
        result == [path      |-> relative_path,
                   name      |-> file,
                   size      |-> stat.size,
                   extension |-> Suffix(file),
                   directory |-> DirectoryString(Parent(relative_path)),
                   content_matches |->
                       IF searched /\ stat.readable
                          /\ Contains(Lower(content), literal)
                       THEN Some(content_matches(SplitOn(content, 10), 1,
                                                 literal, <<>>))
                       ELSE None]
    IN
    IF Len(a.file_extensions) > 0
       /\ \A i \in 1..Len(a.file_extensions) :
             a.file_extensions[i] # Lower(Suffix(file))
    THEN state
    ELSE IF ~GlobMatch(Lower(Chars(file)), Lower(a.pattern)) THEN state
    ELSE IF ~Exists(f, file_path) THEN state
    ELSE [state EXCEPT !.results = Append(@, result),
                       !.count = @ + 1,
                       !.opened = IF searched THEN Append(@, file_path) ELSE @]

RECURSIVE search_files_walk_late(_, _, _, _, _)
\* The loops breaking one result late
search_files_walk_late(f, root, files, a, state) ==
    IF files = <<>> THEN state
    ELSE IF state.count > a.max_results THEN state
    ELSE IF ~RelativeTo(Head(files), root).ok
    THEN [state EXCEPT !.failed = TRUE]
    ELSE search_files_walk_late(f, root, Tail(files), a,
                                search_files_one(f, root, Head(files), a, state))

RECURSIVE search_files_walk(_, _, _, _, _)
\* The two nested loops of search_files: both break at max_results results.
search_files_walk(f, root, files, a, state) ==
    IF files = <<>> THEN state
    ELSE IF state.count >= a.max_results THEN state
    ELSE IF ~RelativeTo(Head(files), root).ok
    THEN [state EXCEPT !.failed = TRUE]
    ELSE search_files_walk(f, root, Tail(files), a,
                           search_files_one(f, root, Head(files), a, state))

\* sorted(results, key=lambda x: (x['directory'], x['name'])): the pair of
\* strings is compared as one sequence, the characters raised by one and a 0
\* between the two strings, which orders pairs as Python orders the tuples.
sort_results(results) ==
    LET up(t)  == [i \in 1..Len(t) |-> t[i] + 1]
        keyed  == [i \in 1..Len(results) |->
                     [key |-> up(results[i].directory) \o <<0>>
                              \o up(Chars(results[i].name)),
                      val |-> results[i]]]
        sorted == SortedByKey(keyed)
    IN  [i \in 1..Len(sorted) |-> sorted[i].val]

\* The run of search_files on the arguments a: what it returns and the
\* files it opened.  A failure gives the one-element list [{"error": ...}].
search_files_run(f, root, a) ==
    LET search_path == IF Truthy(a.path) THEN JoinPath(root, a.path) ELSE root
        start == [results |-> <<>>, count |-> 0, opened |-> <<>>,
                  failed |-> FALSE]
        state == search_files_walk(f, root,
                                   os_walk(f, search_path, search_files_skip),
                                   a, start)
    IN  IF state.failed
        THEN [ret |-> Error("Search failed"), opened |-> state.opened]
        ELSE [ret |-> [kind |-> "ok", results |-> sort_results(state.results)],
              opened |-> state.opened]

search_files(f, root, a) == search_files_run(f, root, a).ret

-----------------------------------------------------------------------------
(* The inputs: file systems and calls.                                     *)

\* The longest generated file content and keyword, the deepest max_depth,
\* the largest max_results and max_matches_per_file, and the longest path
\* argument (in segments) that the calls of the model are drawn with
MaxContentLen == 3
MaxKeywordLen == 2
MaxDepthArg == 3
MaxResultsArg == 3
MaxMatchesArg == 3
MaxLineArg == 4
MaxPathLen == 2

RECURSIVE SeqsUpTo(_, _)
\* Every sequence over alphabet of length at most n
SeqsUpTo(alphabet, n) ==
    IF n = 0 THEN {<<>>}
    ELSE LET shorter == SeqsUpTo(alphabet, n - 1)
         IN  shorter \cup {Append(t, c) : t \in shorter, c \in alphabet}

Repeat(c, n) == <<>> \o [i \in 1..n |-> c]

\* File contents (bytes) named after their text
B_aaaa    == <<97, 97, 97, 97, 10>>
B_zed     == <<97, 10, 65, 10>>
B_fooFOO  == <<102, 111, 111, 10, 70, 79, 79, 10, 98, 97, 114, 10>>
B_crlf    == <<102, 111, 111, 13, 10, 70, 79, 79, 13, 10>>
B_latin   == <<102, 111, 111, 32, 233, 116, 233, 10>>

\* The tree every file system of the model has: /etc/passwd beside the
\* project /proj, the files holding 'root:x', 'foo = 1', 'hello', 'A=1',
\* '[core]', 'aaaa' (each with a line feed) and the head of a PNG image with
\* a zero byte.  rootEntries is the order in which /proj lists its
\* entries, t, aa and zed the bytes of three of its files.
Tree(rootEntries, t, aa, zed) ==
    (<<>> :> Dir(<<"etc", "proj">>))
    @@ (<<"etc">> :> Dir(<<"passwd">>))
    @@ (<<"etc", "passwd">> :> File(<<114, 111, 111, 116, 58, 120, 10>>))
    @@ (<<"proj">> :> Dir(rootEntries))
    @@ (<<"proj", "src">> :> Dir(<<"app.py">>))
    @@ (<<"proj", "src", "app.py">> :> File(<<102, 111, 111, 32, 61, 32, 49, 10>>))
    @@ (<<"proj", "README.md">> :> File(<<104, 101, 108, 108, 111, 10>>))
    @@ (<<"proj", "t.txt">> :> File(t))
    @@ (<<"proj", "aa.txt">> :> File(aa))
    @@ (<<"proj", "Zed.txt">> :> File(zed))
    @@ (<<"proj", ".env">> :> File(<<65, 61, 49, 10>>))
    @@ (<<"proj", ".git">> :> Dir(<<"config">>))
    @@ (<<"proj", ".git", "config">> :> File(<<91, 99, 111, 114, 101, 93, 10>>))
    @@ (<<"proj", "build">> :> Dir(<<"out.txt">>))
    @@ (<<"proj", "build", "out.txt">> :> File(<<97, 97, 97, 97, 10>>))
    @@ (<<"proj", "logo.png">> :> File(<<137, 80, 78, 71, 0, 97, 97>>))

\* /proj listed with its three text files in the order given
RootEntries(textFiles) ==
    <<"logo.png", ".git">> \o textFiles \o <<"src", ".env", "build", "README.md">>

TextFileOrders ==
    {<<"t.txt", "aa.txt", "Zed.txt">>, <<"t.txt", "Zed.txt", "aa.txt">>,
     <<"aa.txt", "t.txt", "Zed.txt">>, <<"aa.txt", "Zed.txt", "t.txt">>,
     <<"Zed.txt", "t.txt", "aa.txt">>, <<"Zed.txt", "aa.txt", "t.txt">>}

BaseTree == Tree(RootEntries(<<"t.txt", "aa.txt", "Zed.txt">>),
                 B_fooFOO, B_aaaa, B_zed)


\* A call with every argument at the default the method signature gives it
\* (max_results is 100 for search_files and 50 for search_in_files; a call
\* of search_files says which)
DefaultCall(op) ==
    [op |-> op, path |-> [abs |-> FALSE, segs |-> <<>>], max_depth |-> 2, start_line |-> 1,
     end_line |-> None, keyword |-> <<>>, file_extensions |-> <<>>,
     max_results |-> IF op = "search_files" THEN 100 ELSE 50,
     case_sensitive |-> FALSE, max_matches_per_file |-> 10,
     pattern |-> <<42>>, include_content |-> FALSE]

\* The path arguments: every path of at most MaxPathLen of these segments,
\* relative or absolute, and some longer ones
PathArgs ==
    {[abs |-> a, segs |-> p] : a \in BOOLEAN, p \in SeqsUpTo({"..", "src", "etc", "passwd", "README.md"},
                               MaxPathLen)}
    \cup {[abs |-> FALSE, segs |-> <<"..", "etc", "passwd">>],
          [abs |-> FALSE, segs |-> <<"src", "..", "README.md">>],
          [abs |-> FALSE, segs |-> <<"nofile", "..", "README.md">>],
          [abs |-> FALSE, segs |-> <<"src", "app.py">>],
          [abs |-> TRUE, segs |-> <<"proj", "src", "app.py">>]}

K_foo  == <<102, 111, 111>>
K_FOO  == <<70, 79, 79>>
K_a    == <<97>>

NoResult == [kind |-> "none"]

\* The calls that differ in their path argument (the keyword is 'root')
InitPaths ==
    /\ fs = BaseTree
    /\ call \in {[DefaultCall(op) EXCEPT
                     !.path = p, !.keyword = <<114, 111, 111, 116>>] :
                    op \in {"read_file", "list_directory", "get_file_info",
                            "search_files", "search_in_files",
                            "set_project_path"},
                    p \in PathArgs}
               \cup {[DefaultCall("get_structure") EXCEPT
                         !.path = p, !.max_depth = d] :
                        p \in PathArgs, d \in 0..MaxDepthArg}
               \cup {DefaultCall("get_project_path")}

\* The calls of search_in_files with a keyword that strip() empties
InitBlank ==
    /\ fs = BaseTree
    /\ call \in {[DefaultCall("search_in_files") EXCEPT
                     !.keyword = k, !.path = p, !.case_sensitive = c,
                     !.max_results = r] :
                    k \in {<<>>, <<32>>, <<9, 10>>, <<160, 32>>},
                    p \in PathArgs, c \in BOOLEAN, r \in {0, 50}}

\* The three text files are each a file of text, a dangling link, a file
\* that cannot be opened, or a file no encoding of the list gets read
\* ('aa éaaé' in latin-1: not UTF-8, and UTF-16 without a byte order mark)
InitFailing ==
    /\ fs \in LET nodes == {File(<<97, 10>>), File(<<97, 97, 10, 65, 10>>),
                            Dangling, Unreadable(<<97, 10>>),
                            File(<<97, 97, 32, 233, 97, 97, 233, 10>>)}
              IN  {[Tree(RootEntries(o), <<>>, <<>>, <<>>) EXCEPT
                       ![<<"proj", "t.txt">>] = t, ![<<"proj", "aa.txt">>] = aa,
                       ![<<"proj", "Zed.txt">>] = zed] :
                     o \in TextFileOrders, t \in nodes, aa \in nodes,
                     zed \in nodes}
    /\ call \in {[DefaultCall("search_in_files") EXCEPT
                     !.keyword = K_a, !.max_results = r] : r \in {1, 2, 50}}

\* The calls of search_files by pattern: t.txt holds 'foo FOO bar' on three
\* lines, seven lines of which six hold a t, '.txt here', '  a.TXT ' between
\* blanks, a text that is not UTF-8, or nothing; aa.txt is a file of text, a
\* file of 1 MiB, a file that cannot be opened or a dangling link
InitSearchFiles ==
    /\ fs \in {[Tree(RootEntries(o), t, B_aaaa, B_zed) EXCEPT
                   ![<<"proj", "aa.txt">>] = aa] :
                 o \in {<<"t.txt", "aa.txt", "Zed.txt">>,
                        <<"Zed.txt", "aa.txt", "t.txt">>},
                 t \in {B_fooFOO,
                        <<116, 10, 84, 10, 120, 10, 116, 10, 116, 10, 116, 10,
                          116, 10>>,
                        <<46, 116, 120, 116, 32, 104, 101, 114, 101, 10>>,
                        <<32, 32, 97, 46, 84, 88, 84, 32, 10>>,
                        <<116, 233, 116, 10>>, <<>>},
                 aa \in {File(B_aaaa), Sized(B_aaaa, 1024 * 1024),
                         Unreadable(B_aaaa), Dangling}}
    /\ call \in {[DefaultCall("search_files") EXCEPT
                     !.pattern = p, !.include_content = c, !.max_results = r,
                     !.file_extensions = x] :
                    \* '*', '*.txt', '?.txt', 't*', 'T.TXT', '*a*'
                    p \in {<<42>>, <<42, 46, 116, 120, 116>>,
                           <<63, 46, 116, 120, 116>>, <<116, 42>>,
                           <<84, 46, 84, 88, 84>>, <<42, 97, 42>>},
                    c \in BOOLEAN, r \in (0..MaxResultsArg) \cup {100},
                    x \in {<<>>, <<(<<46, 116, 120, 116>>)>>}}

\* The calls of get_structure on a project that also holds the directory
\* Docs, the files .hidden and .gitignore and a dangling link, listed
\* before or after the other entries
InitStructure ==
    /\ fs \in {(<<"proj", "Docs">> :> Dir(<<>>))
                @@ (<<"proj", ".hidden">> :> File(B_zed))
                @@ (<<"proj", ".gitignore">> :> File(B_zed))
                @@ (<<"proj", "nofile">> :> Dangling)
                @@ [Tree(RootEntries(o), B_fooFOO, B_aaaa, B_zed) EXCEPT
                       ![<<"proj">>] = Dir(IF front THEN more \o RootEntries(o)
                                          ELSE RootEntries(o) \o more)] :
                 o \in TextFileOrders, front \in BOOLEAN,
                 more \in {<<".hidden", "Docs", "nofile", ".gitignore">>}}
    /\ call \in {[DefaultCall("get_structure") EXCEPT
                     !.path = [abs |-> FALSE, segs |-> p], !.max_depth = d] :
                    p \in {<<>>, <<"src">>, <<"..", "proj">>},
                    d \in 0..MaxDepthArg}

\* The calls of _is_likely_binary_file: t.txt holds every text of up to
\* MaxContentLen of the bytes 0, 9, 'a', 127 and 200, or ten bytes of which
\* seven or six are letters, or a zero byte as its 512th or 513th byte, or
\* 300 bytes 200 before 300 letters, or it cannot be opened, or it is a
\* dangling link; Pic.PNG holds text
InitBinary ==
    /\ fs \in {(<<"proj", "Pic.PNG">> :> File(B_zed))
                @@ [Tree(RootEntries(<<"t.txt", "aa.txt", "Zed.txt">>),
                         <<>>, B_aaaa, B_zed) EXCEPT
                       ![<<"proj">>] = Dir(Append(@.entries, "Pic.PNG")),
                       ![<<"proj", "t.txt">>] = t] :
                 t \in {File(c) : c \in SeqsUpTo({0, 9, 97, 127, 200},
                                                 MaxContentLen)}
                       \cup {File(Repeat(97, 7) \o Repeat(200, 3)),
                             File(Repeat(97, 6) \o Repeat(200, 4)),
                             File(Repeat(97, 511) \o <<0>>),
                             File(Repeat(97, 512) \o <<0>>),
                             File(Repeat(200, 300) \o Repeat(97, 300)),
                             Unreadable(B_zed), Dangling}}
    /\ call \in {[DefaultCall("_is_likely_binary_file") EXCEPT
                     !.path = [abs |-> FALSE, segs |-> <<name>>]] :
                    name \in {"t.txt", "Pic.PNG", "logo.png", "README.md",
                              "src", "nofile"}}

\* The reads: t.txt holds every byte string of up to MaxContentLen of line
\* feed, carriage return, 'a', the two bytes of a UTF-8 e-acute, the
\* Latin-1 e-acute and the two bytes of a byte order mark, or one of the
\* longer samples, or it cannot be opened; it is read whole or by line
\* range, or searched for 'a', or described by get_file_info.  Or t.txt holds a text of up to MaxContentLen
\* of 'a', line feed and carriage return and is read with every start_line
\* and end_line from -1 to MaxLineArg.
InitRead ==
    \/ /\ fs \in {Tree(RootEntries(<<"t.txt", "aa.txt", "Zed.txt">>),
                         c, B_aaaa, B_zed) :
                    c \in SeqsUpTo({10, 13, 97}, MaxContentLen)
                          \cup {B_fooFOO, B_crlf}}
       /\ call \in {[DefaultCall("read_file") EXCEPT
                        !.path = [abs |-> FALSE, segs |-> <<"t.txt">>],
                        !.start_line = s, !.end_line = e] :
                       s \in -1..MaxLineArg,
                       e \in {None} \cup {Some(n) : n \in -1..MaxLineArg}}
    \/ /\ fs \in {[Tree(RootEntries(<<"t.txt", "aa.txt", "Zed.txt">>),
                         <<>>, B_aaaa, B_zed) EXCEPT ![<<"proj", "t.txt">>] = t] :
                    t \in {File(c) : c \in SeqsUpTo({10, 13, 97, 169, 195, 233,
                                                     254, 255}, MaxContentLen)}
                          \cup {File(B_crlf), File(B_latin), File(B_fooFOO),
                                \* 'foo ét\n' in Latin-1, an odd number of bytes
                                File(<<102, 111, 111, 32, 233, 116, 10>>),
                                \* 'a\r\n' in UTF-16 after a byte order mark
                                File(<<255, 254, 97, 0, 13, 0, 10, 0>>),
                                \* 'aé\r\na\ra\n' in UTF-8
                                File(<<97, 195, 169, 13, 10, 97, 13, 97, 10>>),
                                Unreadable(B_zed)}}
       /\ call \in {[DefaultCall("read_file") EXCEPT
                        !.path = [abs |-> FALSE, segs |-> <<"t.txt">>],
                        !.start_line = s, !.end_line = e] :
                       s \in {1, 2}, e \in {None, Some(1)}}
                  \cup {[DefaultCall("search_in_files") EXCEPT !.keyword = K_a],
                        [DefaultCall("get_file_info") EXCEPT
                            !.path = [abs |-> FALSE, segs |-> <<"t.txt">>]]}

\* The calls of search_in_files on one file of varying content: t.txt
\* holds every text of a, A and line feeds up to MaxContentLen characters,
\* or one of the samples; the keyword is every text of a and A up to
\* MaxKeywordLen characters, 'foo', 'FOO', or 'a' before a line feed
InitContents ==
    /\ fs \in {Tree(RootEntries(<<"t.txt", "aa.txt", "Zed.txt">>), c, B_aaaa, B_zed) :
                 c \in SeqsUpTo({97, 65, 10}, MaxContentLen)
                       \cup {B_aaaa, B_fooFOO, B_crlf, B_latin,
                             \* 'İ foo bar baz' and a line feed, in UTF-8
                             <<196, 176, 32, 102, 111, 111, 32, 98, 97, 114,
                               32, 98, 97, 122, 10>>,
                             \* 60 x, 'foo', 60 y and a line feed
                             Repeat(120, 60) \o <<102, 111, 111>>
                                 \o Repeat(121, 60) \o <<10>>,
                             \* 'a', a form feed, 'b' and 'foo' on the next line
                             <<97, 12, 98, 10, 102, 111, 111, 10>>,
                             \* 'a', U+2028, 'b' and 'foo' on the next line, in UTF-8
                             <<97, 226, 128, 168, 98, 10, 102, 111, 111, 10>>,
                             \* 'foo', a vertical tab and 'foo'
                             <<102, 111, 111, 11, 102, 111, 111, 10>>,
                             \* 49 x, 'FOO', 50 y
                             Repeat(120, 49) \o <<70, 79, 79>> \o Repeat(121, 50)}}
    /\ call \in {[DefaultCall("search_in_files") EXCEPT
                     !.keyword = k, !.case_sensitive = c,
                     !.max_matches_per_file = m] :
                    k \in (SeqsUpTo({97, 65}, MaxKeywordLen) \ {<<>>})
                          \cup {K_foo, K_FOO, <<97, 10>>, <<97, 10, 97>>},
                    c \in BOOLEAN, m \in (0..MaxMatchesArg) \cup {10}}

\* The calls of search_in_files over several files: the listing order and
\* the contents of the three text files vary
InitWalk ==
    /\ fs \in {Tree(RootEntries(o), t, aa, zed) :
                 o \in TextFileOrders,
                 t \in {<<97, 10>>, <<97, 97, 10, 65, 10>>, <<98, 10>>},
                 aa \in {<<97, 10>>, <<97, 97, 10, 65, 10>>, <<98, 10>>},
                 zed \in {<<97, 10>>, <<97, 97, 10, 65, 10>>, <<98, 10>>}}
    /\ call \in {[DefaultCall("search_in_files") EXCEPT
                     !.keyword = K_a, !.max_results = r,
                     !.max_matches_per_file = m] :
                    r \in 0..MaxResultsArg, m \in {1, 10}}

\* The server holds /proj as its project root and one call is about to be
\* made; the request loop is not running.
Init ==
    /\ config = None
    /\ project_root = _load_config(config)
    /\ \/ InitPaths \/ InitBlank \/ InitFailing \/ InitContents \/ InitWalk
       \/ InitSearchFiles \/ InitStructure \/ InitBinary \/ InitRead
    /\ phase = "called"
    /\ ret = NoResult
    /\ opened = <<>>
    /\ stdin = <<>>
    /\ stdout = <<>>
    /\ request = <<>>
    /\ mainpc = "idle"

\* What a call leaves alone
Returned ==
    /\ phase' = "returned"
    /\ UNCHANGED <<fs, project_root, config, call, stdin, stdout, request,
                   mainpc>>

SetProjectPath ==
    /\ phase = "called" /\ call.op = "set_project_path"
    /\ \E saved \in BOOLEAN :
          LET run == set_project_path(fs, project_root, config, call.path, saved)
          IN  /\ ret' = run.ret
              /\ project_root' = run.project_root
              /\ config' = run.config
    /\ opened' = <<>>
    /\ phase' = "returned"
    /\ UNCHANGED <<fs, call, stdin, stdout, request, mainpc>>

GetProjectPath ==
    /\ phase = "called" /\ call.op = "get_project_path"
    /\ ret' = get_project_path(fs, project_root)
    /\ opened' = <<>>
    /\ Returned

ReadFile ==
    /\ phase = "called" /\ call.op = "read_file"
    /\ ret' = read_file(fs, project_root, call.path, call.start_line,
                        call.end_line)
    /\ opened' = LET full_path == JoinPath(project_root, call.path)
                 IN  IF IsFile(fs, full_path)
                        /\ Stat(fs, full_path).size <= 5 * 1024 * 1024
                     THEN <<full_path>> ELSE <<>>
    /\ Returned

ListDirectory ==
    /\ phase = "called" /\ call.op = "list_directory"
    /\ ret' = list_directory(fs, project_root, call.path)
    /\ opened' = <<>>
    /\ Returned

GetFileInfo ==
    /\ phase = "called" /\ call.op = "get_file_info"
    /\ ret' = get_file_info(fs, project_root, call.path)
    /\ opened' = LET full_path == JoinPath(project_root, call.path)
                 IN  IF IsFile(fs, full_path)
                        /\ Stat(fs, full_path).size < 1024 * 1024
                     THEN <<full_path>> ELSE <<>>
    /\ Returned

GetStructure ==
    /\ phase = "called" /\ call.op = "get_structure"
    /\ ret' = get_structure(fs, project_root, call.path, call.max_depth)
    /\ opened' = <<>>
    /\ Returned

\* _is_likely_binary_file called on a path under the project root
IsLikelyBinaryFile ==
    /\ phase = "called" /\ call.op = "_is_likely_binary_file"
    /\ ret' = [kind   |-> "ok",
               binary |-> _is_likely_binary_file(
                              fs, JoinPath(project_root, call.path))]
    /\ opened' = IF BinaryCheckOpens(PathName(JoinPath(project_root, call.path)))
                 THEN <<JoinPath(project_root, call.path)>> ELSE <<>>
    /\ Returned

\* A search returns: what it gave and the files it opened
SearchReturned(run) ==
    /\ ret' = run.ret
    /\ opened' = run.opened
    /\ Returned

SearchFiles ==
    /\ phase = "called" /\ call.op = "search_files"
    /\ SearchReturned(search_files_run(fs, project_root, call))

SearchInFiles ==
    /\ phase = "called" /\ call.op = "search_in_files"
    /\ SearchReturned(search_in_files_run(fs, project_root, call))

Next ==
    \/ SetProjectPath
    \/ GetProjectPath
    \/ ReadFile
    \/ ListDirectory
    \/ GetFileInfo
    \/ GetStructure
    \/ SearchFiles
    \/ SearchInFiles
    \/ IsLikelyBinaryFile

Spec == Init /\ [][Next]_vars

-----------------------------------------------------------------------------
(* main: the request loop                                                  *)

\* The tools main routes to, with the parameters of each method and those
\* among them that have no default
tool_parameters ==
    [set_project_path |-> {"path"},
     get_project_path |-> {},
     get_structure |-> {"path", "max_depth"},
     read_file |-> {"file_path", "start_line", "end_line"},
     search_files |-> {"pattern", "path", "include_content",
                       "file_extensions", "max_results"},
     search_in_files |-> {"keyword", "path", "file_extensions", "max_results",
                          "case_sensitive", "max_matches_per_file"},
     list_directory |-> {"path"},
     get_file_info |-> {"file_path"},
     get_project_summary |-> {},
     get_dependencies |-> {},
     find_entry_points |-> {}]

required_parameters ==
    [t \in DOMAIN tool_parameters |->
        CASE t = "set_project_path" -> {"path"}
          [] t \in {"read_file", "get_file_info"} -> {"file_path"}
          [] t = "search_in_files" -> {"keyword"}
          [] OTHER -> {}]

\* get_project_summary, get_dependencies, find_entry_points: each is one
\* try block that returns its payload or, on any failure, an error value
analysis_tools == {"get_project_summary", "get_dependencies", "find_entry_points"}

\* mcp.<tool_name>(**arguments): what the call gives main (a result, or an
\* exception that leaves the method), and the root and configuration after
\* it.  arguments.keys are the keys of the mapping, arguments.args their
\* values over the defaults of the signature.
call_tool(f, root, cfg, tool_name, arguments, saved, failed) ==
    LET same == [project_root |-> root, config |-> cfg]
        args == arguments.args
    IN  IF arguments.kind = "list"
        THEN [ret |-> Raise("TypeError")] @@ same
        ELSE IF ~(arguments.keys \subseteq tool_parameters[tool_name])
                \/ ~(required_parameters[tool_name] \subseteq arguments.keys)
        THEN [ret |-> Raise("TypeError")] @@ same
        ELSE CASE tool_name = "set_project_path" ->
                    set_project_path(f, root, cfg, args.path, saved)
               [] tool_name = "get_project_path" ->
                    [ret |-> get_project_path(f, root)] @@ same
               [] tool_name = "get_structure" ->
                    [ret |-> get_structure(f, root, args.path, args.max_depth)]
                    @@ same
               [] tool_name = "read_file" ->
                    [ret |-> read_file(f, root, args.path, args.start_line,
                                       args.end_line)] @@ same
               [] tool_name = "search_files" ->
                    [ret |-> search_files(f, root, args)] @@ same
               [] tool_name = "search_in_files" ->
                    [ret |-> search_in_files(f, root, args)] @@ same
               [] tool_name = "list_directory" ->
                    [ret |-> list_directory(f, root, args.path)] @@ same
               [] tool_name = "get_file_info" ->
                    [ret |-> get_file_info(f, root, args.path)] @@ same
               [] tool_name \in analysis_tools ->
                    [ret |-> IF failed THEN Error("Error")
                             ELSE [kind |-> "ok", tool |-> tool_name]] @@ same

\* The input lines.  json is what json.loads makes of the line: "invalid"
\* when it raises JSONDecodeError, otherwise the type of the value; method
\* ("" when absent), params and id (None when absent) are the members of an
\* object.
NoArguments == [kind |-> "absent", keys |-> {}, args |-> DefaultCall("")]
NoParams == [kind |-> "absent", name |-> "", arguments |-> NoArguments]
Line(json, method, params, id) ==
    [json |-> json, method |-> method, params |-> params, id |-> id]

\* A tools/call request for tool name with the keys and values given
ToolsCall(id, name, keys, args) ==
    Line("object", "tools/call",
         [kind |-> "object", name |-> name,
          arguments |-> [kind |-> "mapping", keys |-> keys, args |-> args]],
         Some(id))

MaxLines == 2

Lines ==
    {Line("invalid", "", NoParams, None)}
    \cup {Line(j, "", NoParams, None) : j \in {"list", "number", "string"}}
    \cup {Line("object", m, NoParams, Some(1)) :
             m \in {"initialize", "initialized", "tools/list", "resources/list", ""}}
    \cup {Line("object", "tools/call", [NoParams EXCEPT !.kind = k], Some(2)) :
             k \in {"absent", "list", "string"}}
    \cup {Line("object", "tools/call",
               [kind |-> "object", name |-> n,
                arguments |-> [NoArguments EXCEPT !.kind = k]], None) :
             n \in {"list_directory", "nosuchtool"}, k \in {"absent", "list"}}
    \cup {ToolsCall(3, "read_file", {"file_path"},
                    [DefaultCall("") EXCEPT !.path =
                        [abs |-> FALSE, segs |-> <<"README.md">>]]),
          ToolsCall(3, "read_file", {"file_path", "encoding"},
                    [DefaultCall("") EXCEPT !.path =
                        [abs |-> FALSE, segs |-> <<"README.md">>]]),
          ToolsCall(3, "read_file", {"start_line"}, DefaultCall("")),
          ToolsCall(4, "get_structure", {"path"},
                    [DefaultCall("") EXCEPT !.path =
                        [abs |-> TRUE, segs |-> <<"etc">>]]),
          ToolsCall(4, "search_in_files", {"keyword"},
                    [DefaultCall("") EXCEPT !.keyword = K_a]),
          ToolsCall(4, "get_file_info", {"file_path"},
                    [DefaultCall("") EXCEPT !.path =
                        [abs |-> FALSE, segs |-> <<"nofile">>]]),
          ToolsCall(5, "set_project_path", {"path"},
                    [DefaultCall("") EXCEPT !.path =
                        [abs |-> FALSE, segs |-> <<"src">>]]),
          ToolsCall(5, "get_project_path", {}, DefaultCall("")),
          ToolsCall(5, "get_project_summary", {}, DefaultCall(""))}


\* The server has just been constructed in /proj and the loop is about to
\* read its first line; no tool call is being made outside the loop.
InitMain ==
    /\ fs = BaseTree
    /\ config \in {None, Some(<<"proj", "src">>)}
    /\ project_root = _load_config(config)
    /\ call = DefaultCall("")
    /\ phase = "idle"
    /\ ret = NoResult
    /\ opened = <<>>
    /\ stdin \in SeqsUpTo(Lines, MaxLines)
    /\ stdout = <<>>
    /\ request = None
    /\ mainpc = "loop"

\* The response main prints: "result" with the value, or "error"
Response(id, kind, value) == [id |-> id, kind |-> kind, value |-> value]

\* readline() returned '': the loop is left
MainEndOfInput ==
    /\ mainpc = "loop" /\ stdin = <<>>
    /\ mainpc' = "exited"
    /\ UNCHANGED <<fs, project_root, config, call, phase, ret, opened, stdin,
                   stdout, request>>

\* json.loads raised JSONDecodeError: logged, and the loop continues
MainDecodeError ==
    /\ mainpc = "loop" /\ stdin # <<>> /\ Head(stdin).json = "invalid"
    /\ stdin' = Tail(stdin)
    /\ UNCHANGED <<fs, project_root, config, call, phase, ret, opened, stdout,
                   request, mainpc>>

\* The line is JSON but not an object: request.get raises AttributeError,
\* and so does request.get("id") in the handler of `except Exception`, which
\* nothing catches
MainNotAnObject ==
    /\ mainpc = "loop" /\ stdin # <<>>
    /\ Head(stdin).json \notin {"invalid", "object"}
    /\ stdin' = Tail(stdin)
    /\ request' = Some(Head(stdin))
    /\ mainpc' = "crashed"
    /\ UNCHANGED <<fs, project_root, config, call, phase, ret, opened, stdout>>

\* initialize, initialized, tools/list and every other method but tools/call:
\* the result is built from constants and printed with the id of the request
MainProtocol ==
    /\ mainpc = "loop" /\ stdin # <<>>
    /\ Head(stdin).json = "object" /\ Head(stdin).method # "tools/call"
    /\ stdin' = Tail(stdin)
    /\ request' = Some(Head(stdin))
    /\ stdout' = Append(stdout,
           Response(Head(stdin).id, "result",
                    CASE Head(stdin).method = "initialize" -> "serverInfo"
                      [] Head(stdin).method = "initialized" -> "{}"
                      [] Head(stdin).method = "tools/list" -> "tools"
                      [] OTHER -> "Unknown method"))
    /\ UNCHANGED <<fs, project_root, config, call, phase, ret, opened, mainpc>>

\* The tool has run: its result is printed as the result of the request, an
\* exception that left it as an error response
ToolReturned(request_id, run) ==
    /\ stdout' = Append(stdout,
           IF run.ret.kind = "raise"
           THEN Response(request_id, "error", run.ret.exception)
           ELSE Response(request_id, "result", run.ret))
    /\ project_root' = run.project_root
    /\ config' = run.config

\* tools/call: params.get raises AttributeError when params is not an
\* object; an unknown tool name gives an error value as the tool's result;
\* otherwise the tool is called, and an exception that leaves it is answered
\* by the error response of `except Exception`
MainToolsCall ==
    /\ mainpc = "loop" /\ stdin # <<>>
    /\ Head(stdin).json = "object" /\ Head(stdin).method = "tools/call"
    /\ stdin' = Tail(stdin)
    /\ request' = Some(Head(stdin))
    /\ LET params == Head(stdin).params
           request_id == Head(stdin).id
           tool_name == IF params.kind = "object" THEN params.name ELSE ""
           arguments == IF params.kind = "object" /\ params.arguments.kind # "absent"
                        THEN params.arguments
                        ELSE [NoArguments EXCEPT !.kind = "mapping"]
       IN  IF params.kind \notin {"absent", "object"}
           THEN /\ stdout' = Append(stdout,
                       Response(request_id, "error", "AttributeError"))
                /\ UNCHANGED <<project_root, config>>
           ELSE IF tool_name \notin DOMAIN tool_parameters
           THEN /\ stdout' = Append(stdout,
                       Response(request_id, "result", Error("Unknown tool")))
                /\ UNCHANGED <<project_root, config>>
           ELSE \E saved, failed \in BOOLEAN :
                  ToolReturned(request_id,
                               call_tool(fs, project_root, config, tool_name,
                                         arguments, saved, failed))
    /\ UNCHANGED <<fs, call, phase, ret, opened, mainpc>>

NextMain ==
    \/ MainEndOfInput
    \/ MainDecodeError
    \/ MainNotAnObject
    \/ MainProtocol
    \/ MainToolsCall

SpecMain == InitMain /\ [][NextMain]_vars

-----------------------------------------------------------------------------
(* A server over several calls and several processes                       *)

\* get_project_summary, get_dependencies or find_entry_points is called
AnalysisTool ==
    /\ phase = "called" /\ call.op \in analysis_tools
    /\ \E failed \in BOOLEAN :
          ret' = IF failed THEN Error("Error")
                 ELSE [kind |-> "ok", tool |-> call.op]
    /\ opened' = <<>>
    /\ Returned

\* The caller makes its next call on the server
NextCall ==
    /\ phase \in {"constructed", "returned"}
    /\ call' \in {[DefaultCall("set_project_path") EXCEPT !.path = p] :
                    p \in {[abs |-> FALSE, segs |-> <<"src">>],
                           [abs |-> FALSE, segs |-> <<"..">>],
                           [abs |-> FALSE, segs |-> <<"README.md">>],
                           [abs |-> FALSE, segs |-> <<"nofile">>],
                           [abs |-> TRUE, segs |-> <<"etc">>],
                           [abs |-> TRUE, segs |-> <<"etc", "passwd">>],
                           [abs |-> TRUE, segs |-> <<"proj">>]}}
               \cup {[DefaultCall(op) EXCEPT !.keyword = K_foo] :
                        op \in {"get_project_path", "get_structure",
                                "search_files", "search_in_files",
                                "list_directory"} \cup analysis_tools}
               \cup {[DefaultCall(op) EXCEPT
                         !.path = [abs |-> FALSE, segs |-> <<"README.md">>]] :
                        op \in {"read_file", "get_file_info"}}
    /\ phase' = "called"
    /\ ret' = NoResult
    /\ opened' = <<>>
    /\ UNCHANGED <<fs, project_root, config, stdin, stdout, request, mainpc>>

\* The process ends and a later one constructs its UniversalProjectMCP,
\* which loads the saved configuration
Restart ==
    /\ phase = "returned"
    /\ project_root' = _load_config(config)
    /\ phase' = "constructed"
    /\ ret' = NoResult
    /\ opened' = <<>>
    /\ UNCHANGED <<fs, config, call, stdin, stdout, request, mainpc>>

\* A server is constructed in /proj.  There is no readable configuration,
\* or the configuration an earlier process saved names /proj/src, or it
\* names /srv/old, a directory removed since.
InitSession ==
    /\ fs = BaseTree
    /\ config \in {None, Some(<<"proj", "src">>), Some(<<"srv", "old">>)}
    /\ project_root = _load_config(config)
    /\ call = DefaultCall("get_project_path")
    /\ phase = "constructed"
    /\ ret = NoResult
    /\ opened = <<>>
    /\ stdin = <<>>
    /\ stdout = <<>>
    /\ request = <<>>
    /\ mainpc = "idle"

NextSession ==
    \/ NextCall
    \/ Restart
    \/ SetProjectPath
    \/ GetProjectPath
    \/ ReadFile
    \/ ListDirectory
    \/ GetFileInfo
    \/ GetStructure
    \/ SearchFiles
    \/ SearchInFiles
    \/ AnalysisTool

SpecSession == InitSession /\ [][NextSession]_vars

-----------------------------------------------------------------------------
(* overwrite, of the Line-Indexed Mutation Engine.  The revision of the    *)
(* server modelled above has no mutation tools; these definitions follow   *)
(* sections 3 and 4.5 of the specification.                                *)

\* The '.backup'-suffixed sibling of a path
BackupPath(target) ==
    Parent(target) \o <<target[Len(target)] \o ".backup">>

\* The file system left as it is where overwrite should have taken a backup
overwrite_backup_skipped(f, target) == f

\* The file system after the bytes of the target have been copied to its
\* backup sibling, which the directory lists from then on
overwrite_backup(f, target) ==
    LET backup == BackupPath(target)
        dir    == Parent(target)
        name   == backup[Len(backup)]
    IN  (backup :> File(f[target].bytes))
        @@ [f EXCEPT ![dir] =
               IF \E i \in 1..Len(f[dir].entries) : f[dir].entries[i] = name
               THEN @ ELSE Dir(Append(@.entries, name))]

\* overwrite(path, content, encoding, createParentDirs), first step: the
\* target is resolved and tested and, if it exists, copied to its backup
OverwriteBackup ==
    /\ phase = "called" /\ call.op = "overwrite"
    /\ LET target == Normalize(JoinPath(project_root, call.path), <<>>) IN
       IF ~IsPrefix(project_root, target) \/ target = project_root
       THEN /\ ret' = Error("PathEscape") /\ phase' = "returned" /\ fs' = fs
       ELSE IF Exists(fs, target) /\ ~IsFile(fs, target)
       THEN /\ ret' = Error("WrongType") /\ phase' = "returned" /\ fs' = fs
       ELSE IF Exists(fs, target) /\ ~fs[target].readable
       THEN /\ ret' = Error("IOFailure") /\ phase' = "returned" /\ fs' = fs
       ELSE IF ~Exists(fs, target) /\ ~IsDir(fs, Parent(target))
               /\ ~call.createParentDirs
       THEN /\ ret' = Error("NotFound") /\ phase' = "returned" /\ fs' = fs
       ELSE /\ fs' = IF Exists(fs, target) THEN overwrite_backup(fs, target)
                     ELSE fs
            /\ ret' = [kind |-> "pending",
                       backupPath |-> IF Exists(fs, target)
                                      THEN Some(BackupPath(target)) ELSE None]
            /\ phase' = "backed_up"
    /\ opened' = <<>>
    /\ UNCHANGED <<project_root, config, call, stdin, stdout, request, mainpc>>

\* overwrite, second step: missing parent directories are created, the
\* target is truncated and the content written (the content is ASCII, which
\* every encoding offered writes as the same bytes)
OverwriteWrite ==
    /\ phase = "backed_up" /\ call.op = "overwrite"
    /\ LET target == Normalize(JoinPath(project_root, call.path), <<>>)
           dir    == Parent(target)
           name   == target[Len(target)]
           made   == IF IsDir(fs, dir) THEN fs
                     ELSE (dir :> Dir(<<>>))
                          @@ [fs EXCEPT ![Parent(dir)] =
                                 Dir(Append(@.entries, dir[Len(dir)]))]
           listed == IF \E i \in 1..Len(made[dir].entries) :
                              made[dir].entries[i] = name
                     THEN made
                     ELSE [made EXCEPT ![dir] = Dir(Append(@.entries, name))]
       IN  /\ fs' = (target :> File(call.content)) @@ listed
           /\ ret' = [kind       |-> "ok",
                      size       |-> Len(call.content),
                      lineCount  |-> Len(SplitLinesKeep(call.content)),
                      backupPath |-> ret.backupPath]
    /\ phase' = "returned"
    /\ opened' = <<>>
    /\ UNCHANGED <<project_root, config, call, stdin, stdout, request, mainpc>>

\* overwrite is called in /proj, where t.txt holds any text of up to
\* MaxContentLen of 'a', line feed and carriage return, or cannot be read,
\* and where a backup of an earlier overwrite of t.txt may lie
InitOverwrite ==
    /\ fs \in {old @@ [Tree(RootEntries(<<"t.txt", "aa.txt", "Zed.txt">>),
                             <<>>, B_aaaa, B_zed) EXCEPT
                           ![<<"proj", "t.txt">>] = t] :
                 t \in {File(c) : c \in SeqsUpTo({97, 10, 13}, MaxContentLen)}
                       \cup {Unreadable(B_zed)},
                 old \in {<<>>, <<"proj", "t.txt.backup">> :> File(<<122, 10>>)}}
    /\ config = None
    /\ project_root = _load_config(config)
    /\ call \in {[op |-> "overwrite", path |-> [abs |-> FALSE, segs |-> p],
                   content |-> c, createParentDirs |-> d] :
                    p \in {<<"t.txt">>, <<"src", "app.py">>, <<"new.txt">>,
                           <<"Docs", "new.txt">>, <<"src">>,
                           <<"..", "etc", "passwd">>},
                    c \in {<<>>, <<97, 10>>, <<98, 10, 98>>},
                    d \in BOOLEAN}
    /\ phase = "called"
    /\ ret = NoResult
    /\ opened = <<>>
    /\ stdin = <<>>
    /\ stdout = <<>>
    /\ request = <<>>
    /\ mainpc = "idle"

NextOverwrite ==
    \/ OverwriteBackup
    \/ OverwriteWrite

SpecOverwrite == InitOverwrite /\ [][NextOverwrite]_vars

\* C2: the request loop never crashes: whatever the input lines were, the
\* process is in the loop or has left it at the end of the input.
C2_LoopNeverCrashes ==
    /\ mainpc \in {"idle", "loop", "exited"}
    /\ mainpc = "exited" => stdin = <<>>

-----------------------------------------------------------------------------
(* Path confinement and failure handling of the operations.                *)

PathOps == {"read_file", "get_structure", "list_directory", "get_file_info",
            "search_files", "search_in_files"}

\* The path argument of the call normalises to a location outside the root
EscapesRoot ==
    ~IsPrefix(project_root, Normalize(JoinPath(project_root, call.path), <<>>))

\* C1: an operation that takes a path never succeeds on a path that
\* normalises to a location outside project_root, and the file or directory
\* a successful read_file, list_directory or get_file_info reports on lies
\* under project_root.
C1_PathsConfinedToRoot ==
    (phase = "returned" /\ call.op \in PathOps) =>
        /\ EscapesRoot => ret.kind # "ok"
        /\ (ret.kind = "ok"
            /\ call.op \in {"read_file", "list_directory", "get_file_info"})
           => IsPrefix(project_root, Lookup(fs, ret.full_path))

\* C3: no operation raises: each returns a payload or an error value.
C3_OperationsNeverRaise ==
    phase = "returned" => ret.kind \in {"ok", "error"}

-----------------------------------------------------------------------------
(* The tree of get_structure.                                              *)

RECURSIVE NodeAt(_, _)
\* The node the tree holds for the relative path rel
NodeAt(node, rel) ==
    IF rel = <<>> THEN node
    ELSE LET hits == {i \in 1..Len(node.children) :
                         node.children[i].name = Head(rel)}
         IN  IF hits = {} THEN ErrorNode("absent")
             ELSE NodeAt(node.children[CHOOSE i \in hits : TRUE].node, Tail(rel))

\* The locations at or below base that get_structure does not hide, as paths
\* relative to base
ShownBelow(base) ==
    {SubSeq(q, Len(base) + 1, Len(q)) :
        q \in {q \in DOMAIN fs :
                  /\ IsPrefix(base, q)
                  /\ \A i \in (Len(base) + 1)..Len(q) : ~HiddenName(q[i])}}

\* C4: with max_depth = d, every directory exactly d levels below the queried
\* path is reported truncated, and every regular file at most d levels below
\* it is reported as a file leaf with its size and extension.
C4_TruncationAtMaxDepth ==
    (phase = "returned" /\ call.op = "get_structure" /\ ret.kind = "ok"
     /\ Exists(fs, JoinPath(project_root, call.path))) =>
        LET base == Lookup(fs, JoinPath(project_root, call.path)) IN
        \A rel \in ShownBelow(base) :
            LET q == base \o rel IN
            /\ (fs[q].type = "dir" /\ Len(rel) = call.max_depth)
               => NodeAt(ret.structure, rel) = TruncatedNode
            /\ (fs[q].type = "file" /\ Len(rel) <= call.max_depth)
               => NodeAt(ret.structure, rel)
                  = FileNode(fs[q].size, Suffix(PathName(q)))

-----------------------------------------------------------------------------
(* The matches of search_in_files.                                         *)

SearchDone ==
    phase = "returned" /\ call.op = "search_in_files" /\ ret.kind = "ok"

\* The text of the file an entry of ret.matches is about, and its lines
EntryText(e) ==
    TryEncodings(fs[Lookup(fs, project_root \o e.file_path)].bytes,
                 encodings_to_try).content
EntryLines(e) == SplitOn(EntryText(e), 10)

\* The keyword occurs in line at offset p: character for character when the
\* search is case-sensitive, regardless of letter case when it is not
OccursAt(line, p) ==
    /\ p + Len(call.keyword) <= Len(line)
    /\ IF call.case_sensitive
       THEN Slice(line, p, p + Len(call.keyword)) = call.keyword
       ELSE Lower(Slice(line, p, p + Len(call.keyword))) = Lower(call.keyword)

\* The occurrences of the keyword in the lines: <<line number, offset>>
Occurrences(lines) ==
    UNION {{<<n, p>> : p \in {q \in 0..Len(lines[n]) : OccursAt(lines[n], q)}} :
              n \in 1..Len(lines)}

Reported(e) == {<<e.matches[i].line_number, e.matches[i].column - 1>> :
                   i \in 1..Len(e.matches)}

\* The entry of ret.matches for the file called name, if there is one
EntriesFor(name) == {i \in 1..Len(ret.matches) : ret.matches[i].file_name = name}

\* C5: the matches reported for a file are occurrences of the keyword
\* (regardless of letter case when case_sensitive is false, character for
\* character when it is true), every occurrence is reported unless
\* max_matches_per_file cut the list, and matched_text is the text of the
\* line at the match, in its original case.  'foo\nFOO\nbar\n' searched for
\* 'foo' gives lines 1 and 2 ('foo', 'FOO') when case-insensitive and line 1
\* alone when case-sensitive.
C5_MatchesAreTheOccurrences ==
    SearchDone =>
        /\ \A i \in EntriesFor("t.txt") :
              LET e == ret.matches[i]
                  lines == EntryLines(e)
              IN  /\ Reported(e) \subseteq Occurrences(lines)
                  /\ e.match_count < call.max_matches_per_file
                     => Occurrences(lines) \subseteq Reported(e)
                  /\ \A m \in 1..Len(e.matches) :
                        /\ e.matches[m].line_number \in 1..Len(lines)
                        /\ e.matches[m].matched_text
                           = Slice(lines[e.matches[m].line_number],
                                   e.matches[m].column - 1,
                                   e.matches[m].column - 1 + Len(call.keyword))
                        /\ OccursAt(e.matches[m].matched_text, 0)
        /\ (fs[<<"proj", "t.txt">>] = File(B_fooFOO) /\ call.keyword = K_foo
            /\ call.max_matches_per_file = 10) =>
              \E i \in EntriesFor("t.txt") :
                  [m \in 1..Len(ret.matches[i].matches) |->
                      <<ret.matches[i].matches[m].line_number,
                        ret.matches[i].matches[m].matched_text>>]
                  = IF call.case_sensitive THEN <<(<<1, K_foo>>)>>
                    ELSE <<(<<1, K_foo>>), (<<2, K_FOO>>)>>

\* C6: two matches reported on the same line do not overlap: the later one
\* starts at least a keyword length after the earlier one.
C6_MatchesDoNotOverlap ==
    SearchDone =>
        \A i \in 1..Len(ret.matches) :
            LET ms == ret.matches[i].matches IN
            \A x, y \in 1..Len(ms) :
                (x < y /\ ms[x].line_number = ms[y].line_number)
                => ms[y].column >= ms[x].column + Len(call.keyword)

\* The 1-based positions of the line feeds of t before position o
FeedsBefore(t, o) == {i \in 1..Len(t) : i < o /\ t[i] = 10}

\* The keyword occurs in the text of the file (character for character, or
\* regardless of letter case when the search is not case-sensitive) at a
\* position that lies after line_number - 1 line feeds, column characters
\* after the last of them (or after the start of the text)
FoundAt(text, line_number, column) ==
    \E o \in 1..Len(text) :
        /\ OccursAt(text, o - 1)
        /\ Cardinality(FeedsBefore(text, o)) = line_number - 1
        /\ \A i \in FeedsBefore(text, o) : i <= o - column
        /\ (o - column = 0 \/ o - column \in FeedsBefore(text, o))

\* C7: every match record has line_number >= 1 and column >= 1, line_number
\* being one more than the line feeds before the match in the file and
\* column one more than the offset of the match in its line; context is that
\* line from max(0, offset - 50) to min(length, offset + len(keyword) + 50)
\* and contains matched_text.
C7_MatchRecordsAreOneBased ==
    SearchDone =>
        \A i \in 1..Len(ret.matches) :
            LET e == ret.matches[i] IN
            \A m \in 1..Len(e.matches) :
                LET r == e.matches[m]
                    offset == r.column - 1
                IN  /\ r.line_number >= 1
                    /\ r.column >= 1
                    /\ FoundAt(EntryText(e), r.line_number, r.column)
                    /\ r.line_number <= Len(EntryLines(e))
                    /\ r.context
                       = Slice(EntryLines(e)[r.line_number],
                               IF offset - 50 > 0 THEN offset - 50 ELSE 0,
                               IF offset + Len(call.keyword) + 50
                                    < Len(EntryLines(e)[r.line_number])
                               THEN offset + Len(call.keyword) + 50
                               ELSE Len(EntryLines(e)[r.line_number]))
                    /\ Contains(r.context, r.matched_text)

\* C8: no file of the result has more than max_matches_per_file matches.
C8_MatchesPerFileCapped ==
    SearchDone =>
        \A i \in 1..Len(ret.matches) :
            /\ ret.matches[i].match_count = Len(ret.matches[i].matches)
            /\ ret.matches[i].match_count <= call.max_matches_per_file

\* The files opened before the i-th that have an entry in the result
MatchedBefore(i) ==
    {j \in 1..(i - 1) :
        \E k \in 1..Len(ret.matches) :
            project_root \o ret.matches[k].file_path = opened[j]}

\* C9: the result has at most max_results entries, and every file that was
\* opened (so every file counted in total_files_searched) was opened while
\* fewer than max_results of the files before it had matches.
C9_ResultsCapped ==
    SearchDone =>
        /\ Len(ret.matches) <= call.max_results
        /\ ret.total_files_searched <= Len(opened)
        /\ \A i \in 1..Len(opened) :
              Cardinality(MatchedBefore(i)) < call.max_results

\* The cap is reached with files with matches still ahead in the walk
C9_Witness ==
    /\ SearchDone
    /\ call.max_results = 2
    /\ Len(ret.matches) = 2
    /\ ret.total_files_searched = 2
    /\ \A p \in {<<"proj", "t.txt">>, <<"proj", "aa.txt">>, <<"proj", "Zed.txt">>} :
          fs[p].type = "file" /\ fs[p].readable /\ Contains(fs[p].bytes, K_a)

\* C10: the matches list is in descending order of match_count, entries of
\* equal match_count in ascending order of file name.
C10_MatchesSorted ==
    SearchDone =>
        \A i, j \in 1..Len(ret.matches) :
            i < j =>
                \/ ret.matches[i].match_count > ret.matches[j].match_count
                \/ /\ ret.matches[i].match_count = ret.matches[j].match_count
                   /\ ~LexLess(Chars(ret.matches[j].file_name),
                               Chars(ret.matches[i].file_name))

\* Three files with matches that the walk met in another order than the one
\* returned: the first has the most matches, the other two tie
C10_Witness ==
    /\ SearchDone
    /\ Len(ret.matches) = 3
    /\ ret.matches[1].match_count > ret.matches[2].match_count
    /\ ret.matches[2].match_count = ret.matches[3].match_count
    /\ ret.matches[1].file_name = "t.txt"
    /\ ret.matches[2].file_name = "Zed.txt"
    /\ opened[1] = <<"proj", "aa.txt">>

-----------------------------------------------------------------------------
(* The keyword of search_in_files.                                         *)

\* C11: search_in_files called with a keyword that is empty or holds only
\* whitespace returns the error 'Keyword cannot be empty', whatever the other
\* arguments are, and opens no file.
C11_BlankKeywordRejected ==
    (/\ phase = "returned" /\ call.op = "search_in_files"
     /\ \A i \in 1..Len(call.keyword) : call.keyword[i] \in Whitespace)
    => /\ ret = Error("Keyword cannot be empty")
       /\ opened = <<>>

-----------------------------------------------------------------------------
(* Files that search_in_files cannot stat, open or decode.                 *)

\* The files stat() raises on, open() refuses, or no encoding tried decodes
FailingFiles ==
    {p \in DOMAIN fs :
        \/ fs[p].type = "dangling"
        \/ fs[p].type = "file" /\ ~fs[p].readable
        \/ fs[p].type = "file" /\ fs[p].readable
           /\ \E e \in 1..Len(encodings_to_try) :
                 /\ Decode(fs[p].bytes, encodings_to_try[e]).status = "UnicodeError"
                 /\ \A d \in 1..(e - 1) :
                       Decode(fs[p].bytes, encodings_to_try[d]).status
                       = "UnicodeDecodeError"}

\* The file system without the files given
Without(failing) ==
    [p \in DOMAIN fs \ failing |->
        IF fs[p].type = "dir"
        THEN [fs[p] EXCEPT !.entries =
                 SelectSeq(@, LAMBDA n : Append(p, n) \notin failing)]
        ELSE fs[p]]

\* The matches the call returns on the file system f
MatchesOn(f) == search_in_files(f, project_root, call).matches

\* C12: a file of the walk that cannot be stat-ed, opened or decoded is
\* skipped on its own: the search still returns its result, and the matches
\* in it are those the same search returns when the failing files are not
\* there.
C12_FailingFilesSkipped ==
    (/\ phase = "returned" /\ call.op = "search_in_files"
     /\ FailingFiles # {}
     /\ ~(\A i \in 1..Len(call.keyword) : call.keyword[i] \in Whitespace)
     /\ ~EscapesRoot)
    => /\ ret.kind = "ok"
       /\ ret.matches = MatchesOn(Without(FailingFiles))

\* The walk met an undecodable file first, counted it, and went on to
\* report the two files after it
C12_Witness ==
    /\ SearchDone
    /\ <<"proj", "t.txt">> \in FailingFiles
    /\ Len(opened) = 3 /\ opened[1] = <<"proj", "t.txt">>
    /\ ret.total_files_searched = 3
    /\ Len(ret.matches) = 2

-----------------------------------------------------------------------------
(* The results of search_files.                                            *)

SearchFilesDone ==
    phase = "returned" /\ call.op = "search_files" /\ ret.kind = "ok"

\* The file p of the walk matches the pattern and the extensions asked for
\* and can be stat-ed
NameMatches(p) ==
    /\ GlobMatch(Lower(Chars(PathName(p))), Lower(call.pattern))
    /\ call.file_extensions # <<>>
       => \E i \in 1..Len(call.file_extensions) :
             call.file_extensions[i] = Lower(Suffix(PathName(p)))
    /\ fs[Lookup(fs, p)].type = "file"

\* The name-matching files in the order the walk meets them
MatchingInWalkOrder ==
    SelectSeq(os_walk(fs, JoinPath(project_root, call.path), search_files_skip),
              NameMatches)

\* (directory, name) of a is not greater than that of b, as Python compares
\* the tuples
PairNotGreater(a, b) ==
    \/ LexLess(a.directory, b.directory)
    \/ /\ a.directory = b.directory
       /\ ~LexLess(Chars(b.name), Chars(a.name))

\* C13: search_files returns at most max_results entries; they are the
\* first max_results name-matching files of the walk and no file after them
\* is opened; the entries are in ascending order of (directory, name).
C13_SearchFilesCappedAndSorted ==
    SearchFilesDone =>
        LET found == MatchingInWalkOrder
            kept  == SubSeq(found, 1, Min(Len(found), call.max_results))
        IN  /\ Len(ret.results) <= call.max_results
            /\ Len(ret.results) = Len(kept)
            /\ {project_root \o ret.results[i].path : i \in 1..Len(ret.results)}
               = {kept[i] : i \in 1..Len(kept)}
            /\ \A i \in 1..Len(opened) : \E k \in 1..Len(kept) : opened[i] = kept[k]
            /\ \A i, j \in 1..Len(ret.results) :
                  i < j => PairNotGreater(ret.results[i], ret.results[j])

\* The cap cut the walk short of name-matching files, and the two entries
\* returned are not in the order the walk met them
C13_Witness ==
    /\ SearchFilesDone
    /\ call.max_results = 2
    /\ Len(MatchingInWalkOrder) > 2
    /\ Len(ret.results) = 2
    /\ project_root \o ret.results[1].path = MatchingInWalkOrder[2]
    /\ project_root \o ret.results[2].path = MatchingInWalkOrder[1]

-----------------------------------------------------------------------------
(* The content matches of search_files.                                    *)

\* The pattern in lower case without its wildcard characters * ? [ ]
LiteralOf(pattern) ==
    SelectSeq(Lower(pattern), LAMBDA c : c \notin {42, 63, 91, 93})

\* The numbers of the lines that hold the literal, letter case aside
LinesHolding(lines, literal) ==
    {n \in 1..Len(lines) : Contains(Lower(lines[n]), literal)}

\* C14: with include_content, an entry of search_files for a file under
\* 1 MiB whose content holds the pattern without its wildcard characters
\* (letter case aside) has content_matches: at most 5 entries, the first
\* lines that hold that literal, in ascending order, each with its 1-based
\* line number; an entry for a file of 1 MiB or more has no content_matches.
C14_ContentMatches ==
    (SearchFilesDone /\ call.include_content) =>
        \A i \in 1..Len(ret.results) :
            LET e       == ret.results[i]
                node    == fs[Lookup(fs, project_root \o e.path)]
                content == ReadIgnoringErrors(node.bytes)
                lines   == SplitOn(content, 10)
                literal == LiteralOf(call.pattern)
                holding == LinesHolding(lines, literal)
            IN  /\ node.size >= 1024 * 1024 => e.content_matches = None
                /\ (node.size < 1024 * 1024 /\ node.readable
                    /\ Contains(Lower(content), literal))
                   => /\ e.content_matches # None
                      /\ Len(e.content_matches[1]) = Min(5, Cardinality(holding))
                      /\ \A k \in 1..Len(e.content_matches[1]) :
                            LET n == e.content_matches[1][k].line_number
                            IN  /\ n \in holding
                                /\ Cardinality({j \in holding : j < n}) = k - 1
                                /\ e.content_matches[1][k].content = Strip(lines[n])

-----------------------------------------------------------------------------
(* The children of the directories of get_structure.                       *)

StructureDone ==
    /\ phase = "returned" /\ call.op = "get_structure" /\ ret.kind = "ok"
    /\ Exists(fs, JoinPath(project_root, call.path))

\* The directory the call is about, and the directories of its tree that
\* are shown with their children, as paths relative to it
StructureBase == Lookup(fs, JoinPath(project_root, call.path))
ListedDirs ==
    {rel \in ShownBelow(StructureBase) :
        /\ fs[StructureBase \o rel].type = "dir"
        /\ NodeAt(ret.structure, rel).type = "directory"
        /\ ~NodeAt(ret.structure, rel).truncated}

\* C15: in every directory node of get_structure all directories come
\* before all files, and the directories and the files are each in
\* alphabetical order regardless of letter case.
C15_ChildrenSorted ==
    StructureDone =>
        \A rel \in ListedDirs :
            LET ch == NodeAt(ret.structure, rel).children
                kind(i) == fs[StructureBase \o rel \o <<ch[i].name>>].type
            IN  \A i, j \in 1..Len(ch) :
                    i < j =>
                        /\ kind(i) = "file" => kind(j) = "file"
                        /\ kind(i) = kind(j) =>
                              ~LexLess(Lower(Chars(ch[j].name)),
                                       Lower(Chars(ch[i].name)))

\* The project directory is shown with build before Docs and README.md
\* before t.txt before Zed.txt, though the directory lists them otherwise
C15_Witness ==
    /\ StructureDone /\ call.path.segs = <<>> /\ call.max_depth = 2
    /\ fs[<<"proj">>].entries[1] = "logo.png"
    /\ fs[<<"proj">>].entries[3] = "Zed.txt"
    /\ [i \in 1..Len(ret.structure.children) |-> ret.structure.children[i].name]
       = <<"build", "Docs", "src", ".env", ".gitignore", "aa.txt", "logo.png",
           "README.md", "t.txt", "Zed.txt">>

\* C16: get_structure lists no child whose name starts with a dot, except
\* .env, .gitignore and .dockerignore, and lists every other file and
\* directory of each directory it does not truncate.
C16_HiddenChildrenSkipped ==
    StructureDone =>
        \A rel \in ListedDirs :
            LET ch  == NodeAt(ret.structure, rel).children
                dir == StructureBase \o rel
            IN  /\ \A i, j \in 1..Len(ch) : ch[i].name = ch[j].name => i = j
                /\ {ch[i].name : i \in 1..Len(ch)}
                   = {n \in {fs[dir].entries[k] : k \in 1..Len(fs[dir].entries)} :
                        /\ fs[Append(dir, n)].type \in {"file", "dir"}
                        /\ Head(Chars(n)) = 46
                           => n \in {".env", ".gitignore", ".dockerignore"}}

\* The project directory holds .git and .hidden, which are left out, and
\* .env and .gitignore, which are listed
C16_Witness ==
    /\ StructureDone /\ call.path.segs = <<>> /\ call.max_depth = 1
    /\ \A n \in {".git", ".hidden", ".env", ".gitignore"} :
          \E k \in 1..Len(fs[<<"proj">>].entries) : fs[<<"proj">>].entries[k] = n
    /\ {ret.structure.children[i].name : i \in 1..Len(ret.structure.children)}
       \cap {".git", ".hidden", ".env", ".gitignore"} = {".env", ".gitignore"}

-----------------------------------------------------------------------------
(* The binary check.                                                       *)

\* The first 512 bytes of the file the binary check was called on
CheckedSample ==
    LET node == fs[Lookup(fs, JoinPath(project_root, call.path))]
    IN  SubSeq(node.bytes, 1, Min(512, Len(node.bytes)))

\* C19: _is_likely_binary_file returns true exactly when the lower-cased
\* extension of the file is a binary extension, or the file cannot be
\* opened, or its first 512 bytes hold a zero byte, or they are not empty
\* and fewer than 70% of them are printable ASCII (32..126), tab, line feed
\* or carriage return; an empty file with another extension gives false.
C19_BinaryCheck ==
    (phase = "returned" /\ call.op = "_is_likely_binary_file") =>
        LET path     == JoinPath(project_root, call.path)
            opens    == IsFile(fs, path) /\ fs[Lookup(fs, path)].readable
            byExt    == Lower(Suffix(PathName(path))) \in binary_extensions
            n        == Len(CheckedSample)
            printing == Cardinality({i \in 1..n :
                            CheckedSample[i] \in (32..126) \cup {9, 10, 13}})
        IN  /\ ret.binary =
                  (\/ byExt
                   \/ ~opens
                   \/ opens /\ \E i \in 1..n : CheckedSample[i] = 0
                   \/ opens /\ n > 0 /\ 10 * printing < 7 * n)
            /\ (opens /\ ~byExt /\ n = 0) => ret.binary = FALSE

\* Seven of the ten bytes of a text file are printable, which is exactly
\* 70%: the file is not binary
C19_Witness ==
    /\ phase = "returned" /\ call.op = "_is_likely_binary_file"
    /\ call.path.segs = <<"t.txt">>
    /\ fs[<<"proj", "t.txt">>].type = "file" /\ fs[<<"proj", "t.txt">>].readable
    /\ Len(fs[<<"proj", "t.txt">>].bytes) = 10
    /\ Cardinality({i \in 1..10 : fs[<<"proj", "t.txt">>].bytes[i] = 97}) = 7
    /\ ret.binary = FALSE

-----------------------------------------------------------------------------
(* The encodings.                                                          *)

\* A read_file call on a regular file that can be opened and is not too large
ReadOfFile ==
    /\ phase = "returned" /\ call.op = "read_file"
    /\ IsFile(fs, JoinPath(project_root, call.path))
    /\ fs[Lookup(fs, JoinPath(project_root, call.path))].readable
    /\ fs[Lookup(fs, JoinPath(project_root, call.path))].size <= 5 * 1024 * 1024

\* The bytes of the file read_file was called on
BytesRead == fs[Lookup(fs, JoinPath(project_root, call.path))].bytes

\* The place in encodings_to_try of the first encoding that decodes the
\* bytes, 0 if none does
FirstDecoding(b) ==
    LET decoding == {i \in 1..Len(encodings_to_try) :
                        Decode(b, encodings_to_try[i]).status = "ok"}
    IN  IF decoding = {} THEN 0
        ELSE CHOOSE i \in decoding : \A j \in decoding : i <= j

\* C17: read_file and search_in_files try utf-8, utf-16, latin-1, cp1252 in
\* that order and report as the encoding of the file the first one whose
\* decode succeeds; an encoding is never reported when an earlier one would
\* have decoded the file.
C17_FirstDecodingReported ==
    /\ (ReadOfFile /\ FirstDecoding(BytesRead) # 0) =>
           /\ ret.kind = "ok"
           /\ ret.encoding = encodings_to_try[FirstDecoding(BytesRead)]
    /\ SearchDone => \A i \in 1..Len(ret.matches) :
           LET b == fs[Lookup(fs, project_root \o ret.matches[i].file_path)].bytes
           IN  /\ FirstDecoding(b) # 0
               /\ ret.matches[i].encoding = encodings_to_try[FirstDecoding(b)]

\* C18: latin-1 decodes every byte string, so cp1252 is never the reported
\* encoding and read_file never answers 'Cannot read file as text' for a
\* file it could open.
C18_Latin1CatchesAll ==
    /\ ReadOfFile =>
           /\ ret # Error("Cannot read file as text (binary file or encoding issue)")
           /\ ret.kind = "ok" => ret.encoding # "cp1252"
    /\ SearchDone => \A i \in 1..Len(ret.matches) :
                         ret.matches[i].encoding # "cp1252"

\* The text the bytes stand for in the encoding, every character kept
AsWritten(b, enc) ==
    CASE enc = "utf-8"   -> Utf8From(b, 1, <<>>).text
      [] enc = "utf-16"  -> Utf16From(b, 3, b[1] = 254, <<>>).text
      [] enc = "latin-1" -> b
      [] enc = "cp1252"  -> Cp1252From(b, 1, <<>>).text

\* C20: splitting into lines with the terminators kept and joining again
\* changes nothing: read_file with the default range returns the whole
\* content of the file, every line terminator preserved.
C20_WholeContentReturned ==
    (ReadOfFile /\ ret.kind = "ok" /\ call.start_line = 1 /\ call.end_line = None)
        => ret.content = AsWritten(BytesRead, ret.encoding)

-----------------------------------------------------------------------------
(* The project root over the life of the server.                           *)

\* C21: in every reachable state of the server, from construction onward
\* and after any sequence of calls, project_root is (the absolute path of)
\* an existing directory, the state right after the saved configuration is
\* loaded included.
C21_RootIsExistingDirectory ==
    Exists(fs, project_root) /\ IsDir(fs, project_root)

\* C22: project_root changes only through a successful set_project_path.
\* A set_project_path given a path that does not exist or is not a
\* directory returns an error and leaves the root and the saved
\* configuration as they were; every other operation leaves the root as it
\* was and creates, changes or deletes no file.
C22_RootChangesOnlyBySetProjectPath ==
    [][(/\ ((phase' # "constructed" /\ project_root' # project_root) =>
              (/\ phase = "called" /\ call.op = "set_project_path"
               /\ ret'.kind = "ok" /\ ret'.success
               /\ project_root' = ret'.new_path))
        /\ ((/\ phase = "called" /\ call.op = "set_project_path"
             /\ ~IsDir(fs, Resolve(call.path))) =>
              (/\ ret'.kind = "error"
               /\ project_root' = project_root /\ config' = config))
        /\ ((phase = "called" /\ call.op # "set_project_path") =>
              (/\ project_root' = project_root /\ config' = config
               /\ fs' = fs)))]_vars

\* set_project_path has refused a file, in a server whose root an earlier
\* call had moved from /proj to /etc
C22_Witness ==
    /\ phase = "returned" /\ call.op = "set_project_path"
    /\ IsFile(fs, Resolve(call.path))
    /\ ret = Error("Path is not a directory")
    /\ project_root = <<"etc">> /\ config = Some(<<"etc">>)

\* C23: after set_project_path(p) has returned success, get_project_path
\* reports the resolved p and a server process started afterwards starts
\* with the resolved p as its root: the new root was saved.
C23_SuccessMeansSaved ==
    (phase = "returned" /\ call.op = "set_project_path" /\ ret.kind = "ok") =>
        /\ ret.new_path = Resolve(call.path)
        /\ get_project_path(fs, project_root).project_path = Resolve(call.path)
        /\ _load_config(config) = Resolve(call.path)

-----------------------------------------------------------------------------
(* The backup of overwrite.                                                *)

\* The file overwrite was called on
OverwriteTarget == Normalize(JoinPath(project_root, call.path), <<>>)

\* C24: overwrite applied to an existing file always creates a
\* '.backup'-suffixed sibling holding exactly the bytes the file had before,
\* and the backup is complete before the file is truncated: the step that
\* changes the file starts with the backup holding the bytes of the file
\* and leaves the backup alone, and the step before it leaves the file
\* alone.
C24_BackupBeforeTruncation ==
    [][(call.op = "overwrite" /\ IsFile(fs, OverwriteTarget)) =>
          (/\ phase = "called" => fs'[OverwriteTarget] = fs[OverwriteTarget]
           /\ (phase' = "returned" /\ ret'.kind = "ok") =>
                 (/\ ret'.backupPath = Some(BackupPath(OverwriteTarget))
                  /\ IsFile(fs', BackupPath(OverwriteTarget))
                  /\ fs'[BackupPath(OverwriteTarget)].bytes
                     = fs[OverwriteTarget].bytes)
           /\ fs'[OverwriteTarget] # fs[OverwriteTarget] =>
                 (/\ IsFile(fs, BackupPath(OverwriteTarget))
                  /\ fs[BackupPath(OverwriteTarget)].bytes
                     = fs[OverwriteTarget].bytes
                  /\ fs'[BackupPath(OverwriteTarget)]
                     = fs[BackupPath(OverwriteTarget)]))]_vars

\* t.txt has been overwritten where an older backup lay: the backup now
\* holds what t.txt held, which is neither the new content nor the older
\* backup
C24_Witness ==
    /\ phase = "returned" /\ call.op = "overwrite" /\ ret.kind = "ok"
    /\ call.path.segs = <<"t.txt">>
    /\ ret.backupPath = Some(<<"proj", "t.txt.backup">>)
    /\ fs[<<"proj", "t.txt">>].bytes = call.content
    /\ fs[<<"proj", "t.txt.backup">>].bytes = <<97, 13, 10>>
    /\ call.content = <<98, 10, 98>>

-----------------------------------------------------------------------------
(* The responses of main.                                                  *)

\* C25: for any finite sequence of input lines main writes exactly one
\* response for every line that parses as a JSON object and none for a line
\* that is not valid JSON, in the order of the requests and each with the
\* id of its request; every well-formed request is answered whatever lines
\* preceded it, so the loop runs as long as lines remain.
C25_OneResponsePerRequest ==
    [][(/\ stdin' # <<>> => mainpc' = "loop"
        /\ (stdin # <<>> /\ stdin' = Tail(stdin)) =>
             (/\ Head(stdin).json = "object" =>
                    (/\ Len(stdout') = Len(stdout) + 1
                     /\ SubSeq(stdout', 1, Len(stdout)) = stdout
                     /\ stdout'[Len(stdout')].id = Head(stdin).id)
              /\ Head(stdin).json = "invalid" => stdout' = stdout))]_vars

-----------------------------------------------------------------------------
(* The line ranges of read_file.                                           *)

\* The lines of the file read, each with its terminator, and the lines of a
\* text that has no line boundary but the line feed, counted at its line
\* feeds
LinesRead == SplitLinesKeep(TryEncodings(BytesRead, encodings_to_try).content)
LinesAtFeeds(text) ==
    Cardinality({i \in 1..Len(text) : text[i] = 10})
    + (IF text # <<>> /\ text[Len(text)] # 10 THEN 1 ELSE 0)

\* C26: for a file of n lines and a range with 1 <= start_line <= end_line,
\* start_line <= n, read_file returns exactly the lines start_line through
\* end_line (through n when end_line is greater than n), counted from 1 and
\* both included, and reports their number as returned_lines and n as
\* total_lines.
C26_LineRangeReturned ==
    (/\ ReadOfFile /\ ret.kind = "ok" /\ call.end_line # None
     /\ 1 <= call.start_line /\ call.start_line <= call.end_line[1]
     /\ call.start_line <= Len(LinesRead)) =>
        LET n    == Len(LinesRead)
            last == IF call.end_line[1] > n THEN n ELSE call.end_line[1]
            text == TryEncodings(BytesRead, encodings_to_try).content
        IN  /\ ret.total_lines = n
            /\ (\A i \in 1..Len(text) : text[i] \in LineBoundary => text[i] = 10)
                  => n = LinesAtFeeds(text)
            /\ ret.content = Concat(SubSeq(LinesRead, call.start_line, last))
            /\ ret.returned_lines = last - call.start_line + 1

\* Lines 2 to 3 of a file of three lines are read, and lines 2 to 4 of it
C26_Witness ==
    /\ ReadOfFile /\ ret.kind = "ok"
    /\ BytesRead = <<97, 10, 10>> /\ call.start_line = 2
    /\ call.end_line \in {Some(2), Some(4)}
    /\ ret.content = <<10>> /\ ret.returned_lines = 1 /\ ret.total_lines = 2

\* C27: for every file and every start_line and end_line (a start_line
\* beyond the last line, one greater than end_line, zero and negative values
\* included) returned_lines is not negative and is the number of lines in
\* the content returned.
C27_ReturnedLinesCounted ==
    (ReadOfFile /\ ret.kind = "ok") =>
        /\ ret.returned_lines >= 0
        /\ ret.returned_lines = Len(SplitLinesKeep(ret.content))

-----------------------------------------------------------------------------
(* The counters of search_in_files.                                        *)

\* C28: in every successful result of search_in_files files_with_matches
\* is the number of entries of matches whenever the max_results cap was not
\* reached, and total_files_searched is never less than files_with_matches,
\* for every keyword, one that holds a line break included.
C28_CountersAgree ==
    SearchDone =>
        /\ Len(ret.matches) < call.max_results
              => ret.files_with_matches = Len(ret.matches)
        /\ ret.total_files_searched >= ret.files_with_matches

-----------------------------------------------------------------------------
(* Line numbers across the operations.                                     *)

\* C29: line numbers agree between search and reading by line: for every
\* file and every match that search_in_files reports with line_number n,
\* read_file of the file with start_line = n and end_line = n returns the
\* line that holds the match, whatever the content, line boundaries other
\* than the line feed (form feed, vertical tab, U+2028) included.
C29_SearchAndReadAgreeOnLines ==
    SearchDone =>
        \A i \in 1..Len(ret.matches) :
            \A m \in 1..Len(ret.matches[i].matches) :
                LET e    == ret.matches[i]
                    n    == e.matches[m].line_number
                    line == EntryLines(e)[n]
                    read == read_file(fs, project_root,
                                      [abs |-> FALSE, segs |-> e.file_path],
                                      n, Some(n))
                IN  /\ read.kind = "ok"
                    /\ read.content \in {line, line \o <<10>>}

\* C30: for every UTF-8 text file smaller than 1 MiB the 'lines' of
\* get_file_info is the 'total_lines' of read_file, for an empty file and
\* for a file that ends with a line terminator too.
C30_LineCountsAgree ==
    (/\ phase = "returned" /\ call.op = "get_file_info"
     /\ IsFile(fs, JoinPath(project_root, call.path))
     /\ fs[Lookup(fs, JoinPath(project_root, call.path))].readable
     /\ fs[Lookup(fs, JoinPath(project_root, call.path))].size < 1024 * 1024
     /\ Decode(BytesRead, "utf-8").status = "ok") =>
        /\ ret.kind = "ok"
        /\ read_file(fs, project_root, call.path, 1, None).kind = "ok"
        /\ ret.lines
           = Some(read_file(fs, project_root, call.path, 1, None).total_lines)

=============================================================================
